---- MODULE Spec2Model ----
(***************************************************************************)
(* Model of the RPA backend: the task registry (api/shared/models.py), the *)
(* scrolling workers (api/routers/scrolling.py), the session orchestrator  *)
(* (browser/hybrid.py) and the target classification pipeline              *)
(* (agents/target_identification_brain.py).                                *)
(***************************************************************************)
EXTENDS Integers, Sequences, FiniteSets, TLC

(***************************************************************************)
(* Bounds of the model.                                                    *)
(***************************************************************************)
MaxTasks == 2

TaskIds == 1..MaxTasks

(***************************************************************************)
(* Task registry: api/shared/models.py                                     *)
(***************************************************************************)
VARIABLES
    tasks,        \* _tasks: task_id -> [status, message, result, logs]
    stop_flags,   \* _stop_flags: task_id -> BOOLEAN
    wkind,        \* task_id -> which worker the endpoint scheduled for it
    wpc,          \* task_id -> position of that worker
    wupd,         \* task_id -> kwargs of the update_task call in progress
    wexc,         \* task_id -> the exception the worker's try block caught
    stop_seen     \* task_id -> status at the first stop request, read by the properties only

regVars == <<tasks, stop_flags, wkind, wpc, wupd, wexc, stop_seen>>

VARIABLES
    now,          \* time.time()
    spc,          \* position of the session run
    cfg,          \* arguments of the run
    sess,         \* locals of run_scraper_scroll_session / run_scroll_session
    ps,           \* locals of the scroll_on_page call in progress
    ret,          \* value returned by the run
    hist          \* observations of the run, read by the properties only

sessVars == <<now, spc, cfg, sess, ps, ret, hist>>

VARIABLES
    call,         \* the classification call: entry point and argument
    users,        \* users of classify_accounts
    cpc,          \* position of the classification call
    batch_start,  \* loop variable i of classify_accounts
    all_results,  \* all_results of classify_accounts
    final,        \* the returned list
    responses     \* what the Inference Service did on each batch so far

clsVars == <<call, users, cpc, batch_start, all_results, final, responses>>

VARIABLES
    sup,          \* arguments and locals of run_infinite_mode
    suph          \* observations of the supervisor, read by the properties only

supVars == <<sup, suph>>

VARIABLES
    io,           \* an export of results and what the two loaders read back
    csvrun        \* arguments and locals of run_csv_profile_visit

ioVars == <<io, csvrun>>

vars == <<regVars, sessVars, clsVars, supVars, ioVars>>

RegFrame == UNCHANGED <<sessVars, clsVars, supVars, ioVars>>

SessFrame == UNCHANGED <<regVars, clsVars, supVars, ioVars>>

ClsFrame == UNCHANGED <<regVars, sessVars, supVars, ioVars>>

SupFrame == UNCHANGED <<regVars, clsVars, ioVars>>

IoFrame == UNCHANGED <<regVars, sessVars, clsVars, supVars>>

RECURSIVE SeqsUpTo(_, _)
SeqsUpTo(S, n) ==
    IF n = 0 THEN {<<>>}
    ELSE LET shorter == SeqsUpTo(S, n - 1)
         IN shorter \cup {Append(q, x) : q \in {r \in shorter : Len(r) = n - 1}, x \in S}

Range(q) == {q[i] : i \in 1..Len(q)}

\* TaskStatus
PENDING == "pending"
RUNNING == "running"
COMPLETED == "completed"
FAILED == "failed"
STOPPED == "stopped"

TaskStatus == {PENDING, RUNNING, COMPLETED, FAILED, STOPPED}

Terminal == {COMPLETED, FAILED, STOPPED}

NoResult == "None"

\* TaskInfo(task_id, status, created_at, message, result=None, logs=[])
TaskInfo(status, message) ==
    [status |-> status, message |-> message, result |-> NoResult, logs |-> <<>>]

\* d[k] = v on a dict
DictSet(d, k, v) == [x \in (DOMAIN d) \cup {k} |-> IF x = k THEN v ELSE d[x]]

\* str(uuid.uuid4())[:8]: ids are opaque and taken as never repeating; the
\* model names the next unused one
FreshId == Cardinality(DOMAIN tasks) + 1

HasFreshId == FreshId \in TaskIds

\* create_task: _tasks[task_id] = TaskInfo(PENDING, ...); _stop_flags[task_id] = False
create_task_tasks(task_id, description) ==
    DictSet(tasks, task_id, TaskInfo(PENDING, description))


\* mutant: creating a task writes a fresh flag table
create_task_flags_reset(task_id) ==
    [x \in (DOMAIN stop_flags) \cup {task_id} |-> FALSE]

create_task_flags(task_id) == DictSet(stop_flags, task_id, FALSE)

\* get_task: _tasks.get(task_id); <<>> stands for None
get_task(task_id) == IF task_id \in DOMAIN tasks THEN <<tasks[task_id]>> ELSE <<>>


\* mutant: the setattr reaches every task of the registry
update_task_every(task_id, k, v) ==
    [t \in DOMAIN tasks |-> [tasks[t] EXCEPT ![k] = v]]

\* one setattr(task, k, v) of update_task; no-op on an unknown id
update_task(task_id, k, v) ==
    IF task_id \in DOMAIN tasks
    THEN [tasks EXCEPT ![task_id] = [tasks[task_id] EXCEPT ![k] = v]]
    ELSE tasks

\* add_task_log: append to the task's logs; no-op on an unknown id
add_task_log(tk, task_id, msg) ==
    IF task_id \in DOMAIN tk
    THEN [tk EXCEPT ![task_id].logs = Append(@, msg)]
    ELSE tk


\* mutant: the flag is written only when it is already there and set
stop_task_lost(task_id) == stop_flags

\* mutant: a stop sets the flag of every task
stop_task_all(task_id) == [x \in (DOMAIN stop_flags) \cup {task_id} |-> TRUE]

\* stop_task: _stop_flags[task_id] = True
stop_task(task_id) == DictSet(stop_flags, task_id, TRUE)

\* is_stopped: _stop_flags.get(task_id, False)
is_stopped(task_id) ==
    IF task_id \in DOMAIN stop_flags THEN stop_flags[task_id] ELSE FALSE

\* list_all_tasks
list_all_tasks == {tasks[t] : t \in DOMAIN tasks}

(***************************************************************************)
(* Workers and endpoints: api/routers/scrolling.py, api/main.py            *)
(***************************************************************************)
WorkerKinds == {"scraper"}

\* keyword arguments each worker passes to the function it calls
WorkerKwargs(kind) ==
    CASE kind = "scraper" ->
           {"cookies", "duration", "stop_flag", "log_callback", "headless",
            "infinite_mode", "target_customer", "scraper_chance", "model",
            "search_targets", "search_chance", "profile_scroll_count",
            "browser_type"}
      [] kind = "classify" ->   \* classify_target_accounts(users, model=model)
           {"users", "model"}
      [] kind = "csv" ->
           {"cookies", "csv_path", "stop_flag", "log_callback", "headless",
            "scroll_count_range", "delay_between_profiles", "like_chance",
            "browser_type"}

\* parameters of the function of browser/hybrid.py each worker calls
CalleeParams(kind) ==
    CASE kind = "scraper" ->    \* run_combined_scroll_with_scraper
           {"account_path", "duration", "stop_flag", "log_callback",
            "headless", "infinite_mode", "target_customer", "scraper_chance",
            "model", "search_targets", "search_chance", "profile_scroll_count"}
      [] kind = "classify" ->   \* classify_target_accounts
           {"users", "model"}
      [] kind = "csv" ->        \* run_csv_profile_visit
           {"account_path", "csv_path", "stop_flag", "log_callback",
            "headless", "scroll_count_range", "delay_between_profiles",
            "like_chance"}

\* parameters without a default value
CalleeRequired(kind) ==
    CASE kind = "scraper" -> {"account_path"}
      [] kind = "classify" -> {"users"}
      [] kind = "csv" -> {"account_path", "csv_path"}

\* Python binds a keyword call iff every keyword names a parameter and
\* every parameter without default is supplied; otherwise TypeError
CallBinds(kwargs, params, required) ==
    kwargs \subseteq params /\ required \subseteq kwargs

WorkerDescription(kind) ==
    CASE kind = "scraper" -> "Scraper-scroll"
      [] kind = "classify" -> "Target identification"
      [] kind = "csv" -> "CSV visit"

WorkerFinished(kind) ==
    CASE kind = "scraper" -> "Scraper-scroll session finished"
      [] kind = "classify" -> "IDEAL=.. POSSIBLE=.. NON-TARGET=.."
      [] kind = "csv" -> "CSV visit session finished"

\* result={"accounts": results} of _classify_worker
Accounts == "accounts"

\* outcomes of the Credential Store call fetch_latest_user_cookies
CookieOutcomes == {"cookies", "absent", "raises"}

NoExc == "none"

\* str(e) of what the worker's try block can catch
NoCookies == "No Instagram cookies found"

CredentialStoreError == "credential store error"

SessionError == "session error"

KeywordTypeError == "got an unexpected keyword argument 'cookies'"

NeverStopped == "never"

\* POST /scrolling/scraper:
\* create_task(...) and bg.add_task(worker, task.task_id, ...)
StartWorker(task_id, kind) ==
    /\ HasFreshId /\ task_id = FreshId
    /\ tasks' = create_task_tasks(task_id, WorkerDescription(kind))
    /\ stop_flags' = create_task_flags(task_id)
    /\ wkind' = DictSet(wkind, task_id, kind)
    /\ wpc' = DictSet(wpc, task_id, "queued")
    /\ wupd' = DictSet(wupd, task_id, <<>>)
    /\ wexc' = DictSet(wexc, task_id, NoExc)
    /\ stop_seen' = DictSet(stop_seen, task_id, NeverStopped)
    /\ RegFrame

\* GET /tasks/{task_id}: 404 on an unknown id, else the task; reads only
get_task_status(task_id) ==
    /\ get_task(task_id) # <<>>
    /\ UNCHANGED regVars
    /\ RegFrame

\* GET /tasks: list_all_tasks(); reads only
get_all_tasks ==
    /\ list_all_tasks # {}
    /\ UNCHANGED regVars
    /\ RegFrame

\* worker entry: update_task(status=RUNNING); log(...); the workers of
\* routers/scrolling.py then fetch the cookies, _classify_worker calls at once
WorkerStart(t) ==
    /\ t \in DOMAIN wpc /\ wpc[t] = "queued"
    /\ tasks' = add_task_log(update_task(t, "status", RUNNING), t, "start")
    /\ wpc' = [wpc EXCEPT ![t] = IF wkind[t] = "classify" THEN "call" ELSE "cookies"]
    /\ UNCHANGED <<stop_flags, wkind, wupd, wexc, stop_seen>>
    /\ RegFrame

\* _get_cookies_or_fail inside the try block
WorkerGetCookies(t) ==
    /\ t \in DOMAIN wpc /\ wpc[t] = "cookies"
    /\ \E outcome \in CookieOutcomes :
         IF outcome = "cookies"
         THEN /\ tasks' = add_task_log(tasks, t, "Loaded cookies")
              /\ wpc' = [wpc EXCEPT ![t] = "call"]
              /\ UNCHANGED wexc
         ELSE /\ wexc' = [wexc EXCEPT ![t] =
                    IF outcome = "absent" THEN NoCookies ELSE CredentialStoreError]
              /\ wpc' = [wpc EXCEPT ![t] = "except"]
              /\ UNCHANGED tasks
    /\ UNCHANGED <<stop_flags, wkind, wupd, stop_seen>>
    /\ RegFrame

\* the call run_...(cookies=cookies, ..., browser_type=browser_type): when the
\* keywords do not bind, TypeError; else the call returns or raises and the
\* worker goes on to update_task(status=COMPLETED, message=...) or to except
WorkerCall(t) ==
    /\ t \in DOMAIN wpc /\ wpc[t] = "call"
    /\ IF CallBinds(WorkerKwargs(wkind[t]), CalleeParams(wkind[t]),
                    CalleeRequired(wkind[t]))
       THEN \E outcome \in {"returns", "raises"} :
              IF outcome = "returns"
              THEN /\ wupd' = [wupd EXCEPT ![t] =
                         << <<"status", COMPLETED>>,
                            <<"message", WorkerFinished(wkind[t])>> >>
                         \o (IF wkind[t] = "classify"
                             THEN << <<"result", Accounts>> >> ELSE <<>>)]
                   /\ wpc' = [wpc EXCEPT ![t] = "update"]
                   /\ UNCHANGED wexc
              ELSE /\ wexc' = [wexc EXCEPT ![t] = SessionError]
                   /\ wpc' = [wpc EXCEPT ![t] = "except"]
                   /\ UNCHANGED wupd
       ELSE /\ wexc' = [wexc EXCEPT ![t] = KeywordTypeError]
            /\ wpc' = [wpc EXCEPT ![t] = "except"]
            /\ UNCHANGED wupd
    /\ UNCHANGED <<tasks, stop_flags, wkind, stop_seen>>
    /\ RegFrame

\* except Exception as e: log(f"Error: {e}"); update_task(status=FAILED, message=str(e))
WorkerExcept(t) ==
    /\ t \in DOMAIN wpc /\ wpc[t] = "except"
    /\ tasks' = add_task_log(tasks, t, "Error")
    /\ wupd' = [wupd EXCEPT ![t] = << <<"status", FAILED>>, <<"message", wexc[t]>> >>]
    /\ wpc' = [wpc EXCEPT ![t] = "update"]
    /\ UNCHANGED <<stop_flags, wkind, wexc, stop_seen>>
    /\ RegFrame

\* one iteration of update_task's loop: setattr(task, k, v)
WorkerSetAttr(t) ==
    /\ t \in DOMAIN wpc /\ wpc[t] = "update"
    /\ tasks' = update_task(t, Head(wupd[t])[1], Head(wupd[t])[2])
    /\ wupd' = [wupd EXCEPT ![t] = Tail(@)]
    /\ wpc' = [wpc EXCEPT ![t] = IF Len(wupd[t]) = 1 THEN "done" ELSE "update"]
    /\ UNCHANGED <<stop_flags, wkind, wexc, stop_seen>>
    /\ RegFrame

(***************************************************************************)
(* Session orchestrator: browser/hybrid.py                                 *)
(* The clock is read in units of the shortest cooldown: the feed scroll of *)
(* a cycle blocks for one Tick; the other steps are taken between two      *)
(* readings of the clock.                                                  *)
(***************************************************************************)
ShortTicks == 5
LongTicks == 10
MaxCap == 2
MaxNew == 2
MaxPageScrolls == 2
MaxLikes == 1
MaxIdentities == 3
MaxPosts == 2
MaxLinks == 2

min_time_between_explores == 30
min_time_between_scraper == 120
min_time_between_visits == 30

Tick == min_time_between_explores

Identities == {"u" \o ToString(i) : i \in 1..MaxIdentities}

\* browser/scraper.py
MAX_ACCOUNTS_PER_SESSION == 30
MAX_HASHTAGS_PER_SESSION == 3
MAX_POSTS_PER_HASHTAG == 5
MAX_COMMENTERS_PER_POST == 15

\* post URLs a hashtag page can list
Posts == {"p" \o ToString(i) : i \in 1..MaxPosts}

\* the a[href*="/p/"] links of a hashtag page, in page order; a failed
\* search, a login redirect or an exception before the listing leave none
PageLinks == SeqsUpTo(Posts, MaxLinks)

\* accounts one post adds to all_users: none (no owner found, or the post
\* raised), or an owner with a full list of commenters
PostYields == {0, 1 + MAX_COMMENTERS_PER_POST}

ShortDuration == ShortTicks * Tick

LongDuration == LongTicks * Tick

SessionKinds == {"scroll", "scraper"}

NoStopFlag == 0

PipelineOutcomes == {"ok", "raises", "back_raises"}

\* lists run_scraper_pipeline_sync may return
PipelineResults == SeqsUpTo(Identities, MaxNew)

\* create_stop_checker(stop_flag)() with stop_flag = make_stop_fn(task_id) or None
should_stop ==
    IF cfg.stop_flag = NoStopFlag THEN FALSE ELSE is_stopped(cfg.stop_flag)


\* mutant: the append loop without the break at the cap
RECURSIVE AppendNew_NoCap(_, _, _)
AppendNew_NoCap(scraped_usernames, new_usernames, max_scraped_accounts) ==
    IF new_usernames = <<>> THEN scraped_usernames
    ELSE IF Head(new_usernames) \notin Range(scraped_usernames)
         THEN AppendNew_NoCap(Append(scraped_usernames, Head(new_usernames)),
                              Tail(new_usernames), max_scraped_accounts)
         ELSE AppendNew_NoCap(scraped_usernames, Tail(new_usernames),
                              max_scraped_accounts)

\* mutant: the append loop without the test of existing
RECURSIVE AppendNew_NoExisting(_, _, _)
AppendNew_NoExisting(scraped_usernames, new_usernames, max_scraped_accounts) ==
    IF new_usernames = <<>> THEN scraped_usernames
    ELSE IF Len(scraped_usernames) >= max_scraped_accounts THEN scraped_usernames
    ELSE AppendNew_NoExisting(Append(scraped_usernames, Head(new_usernames)),
                              Tail(new_usernames), max_scraped_accounts)

\* for uname in new_usernames: break at the cap, append when not existing
RECURSIVE AppendNew(_, _, _)
AppendNew(scraped_usernames, new_usernames, max_scraped_accounts) ==
    IF new_usernames = <<>> THEN scraped_usernames
    ELSE IF Len(scraped_usernames) >= max_scraped_accounts THEN scraped_usernames
    ELSE IF Head(new_usernames) \notin Range(scraped_usernames)
         THEN AppendNew(Append(scraped_usernames, Head(new_usernames)),
                        Tail(new_usernames), max_scraped_accounts)
         ELSE AppendNew(scraped_usernames, Tail(new_usernames), max_scraped_accounts)

\* a site on which every hashtag page of the r-th invocation lists the one
\* post "p<r>"
RunLinks ==
    IF sess.scraper_runs \in 1..MaxPosts
    THEN <<"p" \o ToString(sess.scraper_runs)>> ELSE <<>>

\* post_urls of one hashtag: the links[:MAX_POSTS_PER_HASHTAG * 2] without
\* repetition, cut at MAX_POSTS_PER_HASHTAG
RECURSIVE PostUrlsFrom(_, _)
PostUrlsFrom(links, post_urls) ==
    IF links = <<>> \/ Len(post_urls) >= MAX_POSTS_PER_HASHTAG THEN post_urls
    ELSE IF Head(links) \notin Range(post_urls)
         THEN PostUrlsFrom(Tail(links), Append(post_urls, Head(links)))
         ELSE PostUrlsFrom(Tail(links), post_urls)

PostUrls(links) ==
    PostUrlsFrom(SubSeq(links, 1, IF Len(links) < MAX_POSTS_PER_HASHTAG * 2
                                  THEN Len(links) ELSE MAX_POSTS_PER_HASHTAG * 2),
                 <<>>)


\* mutant: the listing is scraped whole
NewPostUrls_All(post_urls, visited_posts) == post_urls

\* new_post_urls = [u for u in post_urls if u not in visited_posts]
NewPostUrls(post_urls, visited_posts) ==
    SelectSeq(post_urls, LAMBDA u : u \notin visited_posts)

\* mutant: a post is added to visited_posts only when it gave accounts
RECURSIVE ScrapePosts_OnSuccess(_, _, _, _)
ScrapePosts_OnSuccess(new_post_urls, visited_posts, collected, found) ==
    IF new_post_urls = <<>> \/ collected >= MAX_ACCOUNTS_PER_SESSION
    THEN [visited_posts |-> visited_posts, collected |-> collected, gotos |-> <<>>]
    ELSE LET rest == ScrapePosts_OnSuccess(
                         Tail(new_post_urls),
                         IF found > 0 THEN visited_posts \cup {Head(new_post_urls)}
                         ELSE visited_posts,
                         collected + found, found)
         IN [rest EXCEPT !.gotos = <<Head(new_post_urls)>> \o @]

\* for i, post_url in enumerate(new_post_urls): break at the account cap,
\* visited_posts.add(post_url), page.goto(post_url), collect
RECURSIVE ScrapePosts(_, _, _, _)
ScrapePosts(new_post_urls, visited_posts, collected, found) ==
    IF new_post_urls = <<>> \/ collected >= MAX_ACCOUNTS_PER_SESSION
    THEN [visited_posts |-> visited_posts, collected |-> collected, gotos |-> <<>>]
    ELSE LET rest == ScrapePosts(Tail(new_post_urls),
                                 visited_posts \cup {Head(new_post_urls)},
                                 collected + found, found)
         IN [rest EXCEPT !.gotos = <<Head(new_post_urls)>> \o @]

\* the locals at lines 408-424 (203-208 for run_scroll_session)
SessionLocals(start_time) ==
    [start_time |-> start_time,
     scroll_count |-> 0, like_count |-> 0, explore_count |-> 0,
     scraper_runs |-> 0, profiles_visited |-> 0,
     last_explore_time |-> start_time,
     last_scraper_time |-> start_time,
     last_visit_time |-> start_time,
     scraped_usernames |-> <<>>,
     visited_posts |-> {},
     visit_index |-> 0,
     username |-> "",             \* username of the visit phase, unset before the first
     hashtags_done |-> 0,         \* scrape_hashtags_sync: hashtags looped over
     collected |-> 0,             \* scrape_hashtags_sync: collected
     context_open |-> TRUE]

NoSession == [SessionLocals(0) EXCEPT !.context_open = FALSE]


\* mutant: the driver stops and leaves the context it launched
PlaywrightExit_Leak(locals) == locals

\* an exception leaves the block of "with sync_playwright() as p": the
\* driver stops, and the browser context it launched goes with it
PlaywrightExit(locals) == [locals EXCEPT !.context_open = FALSE]

NoPageScroll == [i |-> 0, scroll_count |-> 0, like_count |-> 0, caller |-> "none"]

NoRet == [stats |-> <<>>, should_continue |-> FALSE]

NoHist ==
    [enqueued |-> 0,              \* identities appended to scraped_usernames
     dequeued |-> 0,              \* identities taken for a visit
     refused |-> FALSE,           \* the cap kept a new identity out of the queue
     gotos |-> [p \in Posts |-> 0], \* page.goto(post_url) calls per post URL
     skipped |-> FALSE,           \* a listed post was left out as already visited
     raised |-> "no",             \* the call an exception left the run from
     phases |-> <<>>,             \* phases begun in the current cycle, in order
     after_stop |-> "none",       \* first phase begun with the flag set
     visits |-> <<>>,             \* usernames of the visit phases, in order
     visit_end |-> 0,             \* clock reading when the last visit phase ended, or at the start
     scrape_begin |-> 0,          \* clock reading when the last scrape trigger began, or at the start
     attempts |-> 0,              \* explore attempts: gate passed, target searched
     last_attempt |-> 0,          \* clock reading at the last explore attempt
     close |-> FALSE,             \* an attempt began within the cooldown of the one before
     cycles |-> 0,                \* loop bodies begun
     stop_at |-> "none",          \* action in flight when stop was first requested
     stop_time |-> 0,             \* clock reading at that request
     page_steps_after_stop |-> 0, \* page scroll iterations begun with the flag set
     presses_after_stop |-> 0,    \* page scrolls pressed with the flag set
     cycles_after_stop |-> 0,     \* loop bodies begun with the flag set
     topchecks_after_stop |-> 0,  \* while tests evaluated with the flag set
     late_cycles |-> 0]           \* loop bodies begun at or after the duration

NoCfg == [kind |-> "scroll", session_duration |-> 0, stop_flag |-> NoStopFlag,
          search_targets |-> FALSE, max_scraped_accounts |-> 0]

Stats ==
    IF cfg.kind = "scraper"
    THEN [scrolls |-> sess.scroll_count, likes |-> sess.like_count,
          explores |-> sess.explore_count, scraper_runs |-> sess.scraper_runs,
          profiles_visited |-> sess.profiles_visited]
    ELSE [scrolls |-> sess.scroll_count, likes |-> sess.like_count,
          explores |-> sess.explore_count]

\* mutant: the queue, its index and the visited posts outlive the session
RunSession_Kept(kind, session_duration, stop_flag, search_targets, max_scraped_accounts) ==
    /\ spc = "idle"
    /\ stop_flag = NoStopFlag \/ stop_flag \in DOMAIN tasks
    /\ cfg' = [kind |-> kind, session_duration |-> session_duration,
               stop_flag |-> stop_flag, search_targets |-> search_targets,
               max_scraped_accounts |-> max_scraped_accounts]
    /\ sess' = [SessionLocals(now) EXCEPT
                   !.scraped_usernames = sess.scraped_usernames,
                   !.visit_index = sess.visit_index,
                   !.visited_posts = sess.visited_posts]
    /\ spc' = "top"
    /\ hist' = [NoHist EXCEPT !.visit_end = now, !.scrape_begin = now]
    /\ UNCHANGED <<now, ps, ret>>
    /\ SessFrame

\* a call run_scraper_scroll_session(...) / run_scroll_session(...):
\* sync_playwright, launch_instagram_browser, then the locals
RunSession(kind, session_duration, stop_flag, search_targets, max_scraped_accounts) ==
    /\ spc = "idle"
    /\ stop_flag = NoStopFlag \/ stop_flag \in DOMAIN tasks
    /\ cfg' = [kind |-> kind, session_duration |-> session_duration,
               stop_flag |-> stop_flag, search_targets |-> search_targets,
               max_scraped_accounts |-> max_scraped_accounts]
    /\ \E launch \in {"ok", "raises"} :
         /\ IF launch = "ok"
            THEN /\ sess' = SessionLocals(now)
                 /\ spc' = "top"
                 /\ hist' = [NoHist EXCEPT !.visit_end = now, !.scrape_begin = now]
            ELSE /\ spc' = "raised"
                 /\ hist' = [NoHist EXCEPT !.raised = "launch"]
                 /\ UNCHANGED sess
    /\ UNCHANGED <<now, ps, ret>>
    /\ SessFrame


\* mutant: the while test without the flag
WhileTest_NoFlag == now - sess.start_time < cfg.session_duration

\* while time.time() - start_time < session_duration and not should_stop():
WhileTest == now - sess.start_time < cfg.session_duration /\ ~should_stop

\* the while test and, when it holds, scroll_count += 1
CycleTop ==
    /\ spc = "top"
    /\ IF WhileTest
       THEN /\ sess' = [sess EXCEPT !.scroll_count = @ + 1]
            /\ spc' = "scroll"
            /\ hist' = [hist EXCEPT
                  !.phases = <<>>,
                  !.cycles = @ + 1,
                  !.topchecks_after_stop = @ + (IF should_stop THEN 1 ELSE 0),
                  !.cycles_after_stop = @ + (IF should_stop THEN 1 ELSE 0),
                  !.late_cycles = @ + (IF now - sess.start_time >= cfg.session_duration
                                       THEN 1 ELSE 0)]
       ELSE /\ spc' = "summary"
            /\ hist' = [hist EXCEPT
                  !.topchecks_after_stop = @ + (IF should_stop THEN 1 ELSE 0)]
            /\ UNCHANGED sess
    /\ UNCHANGED <<now, cfg, ps, ret>>
    /\ SessFrame

\* do_single_scroll(page, log); try_random_like(page, log=log)
ScrollAndLike ==
    /\ spc = "scroll"
    /\ now' = now + Tick
    /\ \E scroll \in {"ok", "raises"}, liked \in BOOLEAN :
         /\ IF scroll = "raises"
            THEN /\ spc' = "raised"
                 /\ hist' = [hist EXCEPT !.raised = "scroll"]
                 /\ liked = FALSE
                 /\ sess' = PlaywrightExit(sess)
            ELSE /\ liked => sess.like_count < MaxLikes
                 /\ sess' = [sess EXCEPT !.like_count = @ + (IF liked THEN 1 ELSE 0)]
                 /\ spc' = IF cfg.kind = "scraper" THEN "scrape_gate" ELSE "explore_gate"
                 /\ hist' = [hist EXCEPT !.phases = Append(@, "scroll")]
    /\ UNCHANGED <<cfg, ps, ret>>
    /\ SessFrame

\* mutant: the gate counts the identities not yet visited
ScrapeGateOpen_Pending ==
    /\ Len(sess.scraped_usernames) - sess.visit_index < cfg.max_scraped_accounts
    /\ now - sess.last_scraper_time > min_time_between_scraper

\* mutant: the scrape gate without its cooldown
ScrapeGateOpen_NoCooldown ==
    Len(sess.scraped_usernames) < cfg.max_scraped_accounts

\* if len(scraped_usernames) < max_scraped_accounts and
\*    time_since_last_scraper > min_time_between_scraper and random.random() < scraper_chance
ScrapeGateOpen ==
    /\ Len(sess.scraped_usernames) < cfg.max_scraped_accounts
    /\ now - sess.last_scraper_time > min_time_between_scraper

ScrapeGate ==
    /\ spc = "scrape_gate"
    /\ \E chance \in BOOLEAN :
         IF ScrapeGateOpen /\ chance
         THEN /\ sess' = [sess EXCEPT !.scraper_runs = @ + 1, !.last_scraper_time = now]
              /\ hist' = [hist EXCEPT
                    !.scrape_begin = now,
                    !.phases = Append(@, "scrape"),
                    !.after_stop = IF should_stop /\ @ = "none" THEN "scrape" ELSE @]
              /\ spc' = "scraping"
         ELSE /\ chance = FALSE
              /\ spc' = "visit_gate"
              /\ UNCHANGED <<sess, hist>>
    /\ UNCHANGED <<now, cfg, ps, ret>>
    /\ SessFrame

\* for hashtag in session_hashtags: break at the account cap
ScrapeLoopDone ==
    \/ sess.hashtags_done >= MAX_HASHTAGS_PER_SESSION
    \/ sess.collected >= MAX_ACCOUNTS_PER_SESSION

\* one hashtag of scrape_hashtags_sync: search, list the posts, leave out the
\* visited ones, go to each of the others
ScrapeHashtag(links, found) ==
    /\ spc = "scraping"
    /\ ~ScrapeLoopDone
    /\ LET post_urls == PostUrls(links)
           new_post_urls == NewPostUrls(post_urls, sess.visited_posts)
           r == ScrapePosts(new_post_urls, sess.visited_posts, sess.collected, found)
       IN /\ sess' = [sess EXCEPT !.visited_posts = r.visited_posts,
                                  !.collected = r.collected,
                                  !.hashtags_done = @ + 1]
          /\ hist' = [hist EXCEPT
                !.gotos = [p \in Posts |->
                             @[p] + Cardinality({i \in 1..Len(r.gotos) : r.gotos[i] = p})],
                !.skipped = @ \/ Len(new_post_urls) < Len(post_urls)]
    /\ UNCHANGED <<now, spc, cfg, ps, ret>>
    /\ SessFrame

\* the rest of run_scraper_pipeline_sync (nothing scraped gives no
\* usernames; else analysis, export, read-back), which may raise;
\* go_back_to_feed(page, log), whose direct navigation may raise; the append
\* loop; the clock moves on by the time the pipeline took
ScrapeTrigger(outcome, new_usernames, took) ==
    /\ spc = "scraping"
    /\ ScrapeLoopDone
    /\ now' = now + took
    /\ sess.collected = 0 => new_usernames = <<>>
    /\ IF outcome # "ok"
       THEN /\ new_usernames = <<>>
            /\ spc' = "raised"
            /\ hist' = [hist EXCEPT !.raised =
                           IF outcome = "raises" THEN "pipeline" ELSE "feed"]
            /\ sess' = PlaywrightExit(sess)
       ELSE LET queue == AppendNew(sess.scraped_usernames, new_usernames,
                                   cfg.max_scraped_accounts)
            IN /\ sess' = [sess EXCEPT !.scraped_usernames = queue,
                                       !.hashtags_done = 0,
                                       !.collected = 0]
               /\ hist' = [hist EXCEPT
                     !.enqueued = @ + Len(queue) - Len(sess.scraped_usernames),
                     !.refused = @ \/ Cardinality(Range(new_usernames)
                                          \cup Range(sess.scraped_usernames))
                                    > Len(queue)]
               /\ spc' = "visit_gate"
    /\ UNCHANGED <<cfg, ps, ret>>
    /\ SessFrame


\* mutant: every visit takes the head of the queue
NextUsername_Head(scraped_usernames, visit_index) ==
    IF scraped_usernames # <<>> THEN scraped_usernames[1] ELSE "IndexError"

\* username = scraped_usernames[visit_index], which raises IndexError past
\* the end of the list (the gate lets no such index through)
NextUsername(scraped_usernames, visit_index) ==
    IF visit_index < Len(scraped_usernames)
    THEN scraped_usernames[visit_index + 1] ELSE "IndexError"


\* mutant: the visit gate without the test of visit_index
VisitGateOpen_NoIndex == now - sess.last_visit_time > min_time_between_visits

\* if visit_index < len(scraped_usernames) and
\*    time_since_last_visit > min_time_between_visits and random.random() < 0.30
VisitGateOpen ==
    /\ sess.visit_index < Len(sess.scraped_usernames)
    /\ now - sess.last_visit_time > min_time_between_visits

VisitGate ==
    /\ spc = "visit_gate"
    /\ \E chance \in BOOLEAN :
         IF VisitGateOpen /\ chance
         THEN \* username = scraped_usernames[visit_index]; visit_index += 1
              /\ sess' = [sess EXCEPT
                    !.username = NextUsername(sess.scraped_usernames, sess.visit_index),
                    !.visit_index = @ + 1]
              /\ hist' = [hist EXCEPT
                    !.dequeued = @ + 1,
                    !.visits = Append(@, sess'.username),
                    !.phases = Append(@, "visit"),
                    !.after_stop = IF should_stop /\ @ = "none" THEN "visit" ELSE @]
              /\ spc' = "visit_search"
         ELSE /\ chance = FALSE
              /\ spc' = "explore_gate"
              /\ UNCHANGED <<sess, hist>>
    /\ UNCHANGED <<now, cfg, ps, ret>>
    /\ SessFrame

\* randint(profile_scroll_count[0], profile_scroll_count[1])
ProfileScrollCounts == 1..MaxPageScrolls

\* try: if not perform_search(page, username, "username", log): ... else: ...
VisitSearch ==
    /\ spc = "visit_search"
    /\ \E search \in {"found", "not_found", "raises"},
          num_scrolls \in ProfileScrollCounts :
         /\ IF search = "found"
            THEN /\ sess' = [sess EXCEPT !.profiles_visited = @ + 1]
                 /\ ps' = [i |-> 0, scroll_count |-> num_scrolls, like_count |-> 0,
                           caller |-> "visit"]
                 /\ spc' = "page_scroll"
            ELSE /\ num_scrolls = 1
                 /\ spc' = "visit_back"
                 /\ UNCHANGED <<sess, ps>>
    /\ UNCHANGED <<now, cfg, ret, hist>>
    /\ SessFrame

\* try: if not perform_search(page, target, search_type, log): ... in
\* perform_search_and_explore
ExploreGateOpen ==
    /\ cfg.search_targets
    /\ now - sess.last_explore_time > min_time_between_explores

ExploreGate ==
    /\ spc = "explore_gate"
    /\ \E chance \in BOOLEAN :
         IF ExploreGateOpen /\ chance
         THEN /\ spc' = "explore_search"
              /\ hist' = [hist EXCEPT
                    !.phases = Append(@, "explore"),
                    !.after_stop = IF should_stop /\ @ = "none" THEN "explore" ELSE @,
                    !.attempts = @ + 1,
                    !.last_attempt = now,
                    !.close = @ \/ /\ hist.attempts > 0
                                   /\ now - hist.last_attempt <= min_time_between_explores]
         ELSE /\ chance = FALSE
              /\ spc' = "top"
              /\ UNCHANGED hist
    /\ UNCHANGED <<now, cfg, sess, ps, ret>>
    /\ SessFrame

ExploreSearch ==
    /\ spc = "explore_search"
    /\ \E search \in {"found", "not_found", "raises"},
          scroll_count \in ProfileScrollCounts :
         /\ IF search = "found"
            THEN /\ ps' = [i |-> 0, scroll_count |-> scroll_count, like_count |-> 0,
                           caller |-> "explore"]
                 /\ spc' = "page_scroll"
            ELSE \* search failed or raised: go_back_to_feed, return False
                 /\ scroll_count = 1
                 /\ spc' = "top"
                 /\ UNCHANGED ps
    /\ UNCHANGED <<now, cfg, sess, ret, hist>>
    /\ SessFrame


\* mutant: scroll_on_page without its flag test
PageScrollBreak_Never == FALSE

\* if should_stop(): break    (scroll_on_page)
PageScrollBreak == should_stop

\* for i in range(scroll_count): the flag test of one iteration, passed
PageScrollCheck ==
    /\ spc = "page_scroll"
    /\ ps.i < ps.scroll_count
    /\ ~PageScrollBreak
    /\ spc' = "page_press"
    /\ hist' = [hist EXCEPT !.page_steps_after_stop = @ + (IF should_stop THEN 1 ELSE 0)]
    /\ UNCHANGED <<now, cfg, sess, ps, ret>>
    /\ SessFrame

\* the rest of the iteration: page.press('body', 'PageDown'), the random like
PageScrollStep ==
    /\ spc = "page_press"
    /\ \E press \in {"ok", "raises"}, liked \in BOOLEAN :
         /\ IF press = "raises"
            THEN \* caught by the try of the visit / of perform_search_and_explore
                 /\ liked = FALSE
                 /\ spc' = IF ps.caller = "visit" THEN "visit_back" ELSE "top"
                 /\ ps' = NoPageScroll
                 /\ UNCHANGED hist
            ELSE /\ liked => sess.like_count + ps.like_count < MaxLikes
                 /\ ps' = [ps EXCEPT !.i = @ + 1,
                                     !.like_count = @ + (IF liked THEN 1 ELSE 0)]
                 /\ spc' = "page_scroll"
                 /\ hist' = [hist EXCEPT !.presses_after_stop =
                               @ + (IF should_stop THEN 1 ELSE 0)]
    /\ UNCHANGED <<now, cfg, sess, ret>>
    /\ SessFrame

\* scroll_on_page returns like_count: the visit adds it and tries to follow,
\* the explore returns to the feed and is counted
PageScrollReturn ==
    /\ spc = "page_scroll"
    /\ ps.i >= ps.scroll_count \/ PageScrollBreak
    /\ \E back \in {"ok", "raises"} :
         /\ IF ps.caller = "visit"
            THEN \* like_count += visit_likes; scroll_to_top_and_follow
                 /\ back = "ok"
                 /\ sess' = [sess EXCEPT !.like_count = @ + ps.like_count]
                 /\ spc' = "visit_back"
            ELSE \* go_back_to_feed; return True, or False when it raised
                 /\ sess' = IF back = "ok"
                            THEN [sess EXCEPT !.explore_count = @ + 1,
                                              !.last_explore_time = now]
                            ELSE sess
                 /\ spc' = "top"
    /\ ps' = NoPageScroll
    /\ UNCHANGED <<now, cfg, ret, hist>>
    /\ SessFrame

\* try: go_back_to_feed(page, log) except: pass; last_visit_time = time.time();
\* time.sleep(random.uniform(5, 15)); the clock is read after the time the
\* visit took
VisitBack(took) ==
    /\ spc = "visit_back"
    /\ now' = now + took
    /\ sess' = [sess EXCEPT !.last_visit_time = now']
    /\ hist' = [hist EXCEPT !.visit_end = now']
    /\ spc' = "explore_gate"
    /\ UNCHANGED <<cfg, ps, ret>>
    /\ SessFrame

\* after the loop: context.close(); return stats, not should_stop()
SessionReturn ==
    /\ spc = "summary"
    /\ sess' = [sess EXCEPT !.context_open = FALSE]
    /\ ret' = [stats |-> Stats, should_continue |-> ~should_stop]
    /\ spc' = "returned"
    /\ UNCHANGED <<now, cfg, ps, hist>>
    /\ SessFrame

\* where the run is: the action in flight
Phase ==
    CASE spc \in {"explore_search"} -> "explore"
      [] spc \in {"page_scroll", "page_press"} -> ps.caller
      [] spc \in {"visit_search", "visit_back"} -> "visit"
      [] spc = "scraping" -> "scrape"
      [] spc = "scroll" -> "scroll"
      [] OTHER -> "between"

\* POST /tasks/{task_id}/stop: 404 on an unknown id, else stop_task
stop_running_task(task_id) ==
    /\ get_task(task_id) # <<>>
    /\ stop_flags' = stop_task(task_id)
    /\ stop_seen' = IF ~is_stopped(task_id)
                     THEN DictSet(stop_seen, task_id, tasks[task_id].status)
                     ELSE stop_seen
    /\ hist' = IF /\ spc \notin {"idle", "returned", "raised"}
                   /\ cfg.stop_flag = task_id
                   /\ ~is_stopped(task_id)
                THEN [hist EXCEPT !.stop_at = Phase, !.stop_time = now] ELSE hist
    /\ suph' = IF /\ sup.pc \notin {"idle", "ended", "raised"}
                   /\ sup.stop_flag = task_id
                   /\ ~is_stopped(task_id)
                THEN [suph EXCEPT !.stop_at = sup.pc, !.stop_runs = suph.runs]
                ELSE suph
    /\ UNCHANGED <<tasks, wkind, wpc, wupd, wexc>>
    /\ UNCHANGED <<now, spc, cfg, sess, ps, ret, clsVars, sup, ioVars>>

(***************************************************************************)
(* Infinite-mode supervisor: run_infinite_mode of                          *)
(* ScrollingAutomation/scrolling.py, as run_combined_scroll and            *)
(* run_combined_scroll_with_scraper call it with infinite_mode set         *)
(***************************************************************************)
MaxSessions == 2

\* time.sleep(30) of the rest loop
rest_sleep == 30

\* (active_range, rest_range) arguments; randint(range[0], range[1])
ActiveRanges == {<<10, 10>>, <<ShortDuration, ShortDuration>>}

RestRanges == {<<5, 5>>, <<2 * rest_sleep, 2 * rest_sleep>>}

\* the counters a session run reports
Counters == {"scrolls", "likes", "explores", "scraper_runs", "profiles_visited"}

\* session_stats.get(k, 0)
StatOf(stats, k) == IF k \in DOMAIN stats THEN stats[k] ELSE 0


\* total_stats['scrolls'] += session_stats.get('scrolls', 0), likewise
\* 'likes' and 'explores'
Accumulate(total_stats, session_stats) ==
    [total_stats EXCEPT !.scrolls = @ + StatOf(session_stats, "scrolls"),
                        !.likes = @ + StatOf(session_stats, "likes"),
                        !.explores = @ + StatOf(session_stats, "explores")]

\* total_stats = {'scrolls': 0, 'likes': 0, 'explores': 0, 'sessions': 0}
NoSup == [pc |-> "idle", kind |-> "scroll", stop_flag |-> NoStopFlag,
          active_range |-> <<0, 0>>, rest_range |-> <<0, 0>>,
          total_stats |-> [scrolls |-> 0, likes |-> 0, explores |-> 0,
                           sessions |-> 0],
          active_duration |-> 0,
          rest_start |-> 0, rest_duration |-> 0]

NoSupHist ==
    [runs |-> 0,                  \* session runs that returned
     sum |-> [k \in Counters |-> 0], \* what those runs reported, summed
     first |-> [k \in Counters |-> 0], \* what the first of them reported
     stop_at |-> "none",          \* position of the supervisor at the first stop request
     stop_runs |-> 0,             \* session runs begun before that request
     left |-> <<>>,               \* identities queued and not visited when the last run returned
     posts |-> {},                \* visited_posts when the last run returned
     sessions_after_stop |-> 0,   \* sessions begun by a loop test with the flag set
     rests_after_stop |-> 0,      \* rests begun with the flag set or after should_continue false
     sleeps_after_stop |-> 0]     \* rest sleeps begun with the flag set

\* create_stop_checker(stop_flag)() of the supervisor's caller
SupShouldStop ==
    IF sup.stop_flag = NoStopFlag THEN FALSE ELSE is_stopped(sup.stop_flag)

\* run_combined_scroll[_with_scraper](..., infinite_mode=True):
\* run_infinite_mode(session_runner, should_stop, log)
StartInfinite(kind, stop_flag, active_range, rest_range) ==
    /\ sup.pc = "idle" /\ spc = "idle"
    /\ stop_flag = NoStopFlag \/ stop_flag \in DOMAIN tasks
    /\ sup' = [NoSup EXCEPT !.pc = "top", !.kind = kind, !.stop_flag = stop_flag,
                            !.active_range = active_range,
                            !.rest_range = rest_range]
    /\ suph' = NoSupHist
    /\ UNCHANGED sessVars
    /\ SupFrame


\* while not should_stop(): and, when the test holds, sessions += 1 and
\* active_duration = random.randint(active_range[0], active_range[1])
SupervisorTop ==
    /\ sup.pc = "top"
    /\ IF ~SupShouldStop
       THEN /\ sup.total_stats.sessions < MaxSessions
            /\ \E active_duration \in sup.active_range[1]..sup.active_range[2] :
                 sup' = [sup EXCEPT !.total_stats.sessions = @ + 1,
                                    !.active_duration = active_duration,
                                    !.pc = "call"]
            /\ suph' = [suph EXCEPT !.sessions_after_stop =
                           @ + (IF SupShouldStop THEN 1 ELSE 0)]
       ELSE /\ sup' = [sup EXCEPT !.pc = "ended"]
            /\ UNCHANGED suph
    /\ UNCHANGED sessVars
    /\ SupFrame

\* session_stats, should_continue = run_session_func(active_duration): the call
SupervisorCall ==
    /\ sup.pc = "call"
    /\ RunSession(sup.kind, sup.active_duration, sup.stop_flag, FALSE, 1)


\* the call has returned: accumulate, then
\* if not should_continue or should_stop(): break, else
\* rest_duration = random.randint(rest_range[0], rest_range[1])
SupervisorAccumulate ==
    /\ sup.pc = "call" /\ spc = "returned"
    /\ spc' = "idle"
    /\ IF ~ret.should_continue \/ SupShouldStop
       THEN /\ sup' = [sup EXCEPT
                  !.total_stats = Accumulate(@, ret.stats),
                  !.pc = "ended"]
            /\ suph' = [suph EXCEPT
                  !.runs = @ + 1,
                  !.left = SubSeq(sess.scraped_usernames, sess.visit_index + 1,
                                  Len(sess.scraped_usernames)),
                  !.posts = sess.visited_posts,
                  !.sum = [k \in Counters |-> @[k] + StatOf(ret.stats, k)],
                  !.first = IF suph.runs = 0
                            THEN [k \in Counters |-> StatOf(ret.stats, k)] ELSE @]
       ELSE \E rest_duration \in sup.rest_range[1]..sup.rest_range[2] :
            /\ sup' = [sup EXCEPT
                  !.total_stats = Accumulate(@, ret.stats),
                  !.rest_start = now,
                  !.rest_duration = rest_duration,
                  !.pc = "rest"]
            /\ suph' = [suph EXCEPT
                  !.runs = @ + 1,
                  !.left = SubSeq(sess.scraped_usernames, sess.visit_index + 1,
                                  Len(sess.scraped_usernames)),
                  !.posts = sess.visited_posts,
                  !.sum = [k \in Counters |-> @[k] + StatOf(ret.stats, k)],
                  !.first = IF suph.runs = 0
                            THEN [k \in Counters |-> StatOf(ret.stats, k)] ELSE @,
                  !.rests_after_stop =
                      @ + (IF ~ret.should_continue \/ SupShouldStop THEN 1 ELSE 0)]
    /\ UNCHANGED <<now, cfg, sess, ps, ret, hist>>
    /\ SupFrame

\* the call has raised: run_infinite_mode has no try block
SupervisorRaise ==
    /\ sup.pc = "call" /\ spc = "raised"
    /\ sup' = [sup EXCEPT !.pc = "raised"]
    /\ UNCHANGED <<suph, sessVars>>
    /\ SupFrame


\* while time.time() - rest_start < rest_duration and not should_stop():
\* and, when the test holds, time.sleep(30)
RestLoop ==
    /\ sup.pc = "rest"
    /\ IF now - sup.rest_start < sup.rest_duration /\ ~SupShouldStop
       THEN /\ now' = now + rest_sleep
            /\ suph' = [suph EXCEPT !.sleeps_after_stop =
                           @ + (IF SupShouldStop THEN 1 ELSE 0)]
            /\ UNCHANGED sup
       ELSE /\ sup' = [sup EXCEPT !.pc = "after_rest"]
            /\ UNCHANGED <<now, suph>>
    /\ UNCHANGED <<spc, cfg, sess, ps, ret, hist>>
    /\ SupFrame

\* if should_stop(): break, else the next iteration
AfterRest ==
    /\ sup.pc = "after_rest"
    /\ sup' = [sup EXCEPT !.pc = IF SupShouldStop THEN "ended" ELSE "top"]
    /\ UNCHANGED <<suph, sessVars>>
    /\ SupFrame

SupInit ==
    /\ sup = NoSup
    /\ suph = NoSupHist

SessInit ==
    /\ now = 0
    /\ spc = "idle"
    /\ cfg = NoCfg
    /\ sess = NoSession
    /\ ps = NoPageScroll
    /\ ret = NoRet
    /\ hist = NoHist

SessionStep ==
    \/ CycleTop
    \/ ScrollAndLike
    \/ ScrapeGate
    \/ ScrapeHashtag(RunLinks, 1 + MAX_COMMENTERS_PER_POST)
    \/ \E outcome \in PipelineOutcomes, new_usernames \in {<<>>, <<"u1">>} :
            ScrapeTrigger(outcome, new_usernames, 0)
    \/ VisitGate
    \/ VisitSearch
    \/ ExploreGate
    \/ ExploreSearch
    \/ PageScrollCheck
    \/ PageScrollStep
    \/ PageScrollReturn
    \/ VisitBack(0)
    \/ SessionReturn

RegInit ==
    /\ tasks = <<>>
    /\ stop_flags = <<>>
    /\ wkind = <<>>
    /\ wpc = <<>>
    /\ wupd = <<>>
    /\ wexc = <<>>
    /\ stop_seen = <<>>

(***************************************************************************)
(* Target classification: agents/target_identification_brain.py            *)
(* A username is a sequence of tokens, "@" or a name; a response of the    *)
(* Inference Service is the sequence of the blocks its text splits into.   *)
(***************************************************************************)
BATCH_SIZE == 5

MaxUsers == 13
MaxShort == 2
RichLimit == 6

Names == {"u" \o ToString(i) : i \in 1..MaxUsers}

\* str.lstrip("@")
RECURSIVE lstrip(_)
lstrip(username) ==
    IF username # <<>> /\ Head(username) = "@" THEN lstrip(Tail(username)) ELSE username

\* the user dicts of the model: u.get("username", ""), u.get("source", "unknown")
User(username, source) == [username |-> username, source |-> source]

DistinctUsers(n) ==
    [i \in 1..n |-> User(<<"u" \o ToString(i)>>,
                         IF i % 2 = 1 THEN "post_owner" ELSE "commenter")]

ShortDicts ==
    {User(<<"u1">>, "post_owner"), User(<<"@", "u1">>, "commenter"),
     User(<<"u2">>, "commenter"), User(<<>>, "post_owner")}

ClassifyInputs ==
    {DistinctUsers(n) : n \in 0..MaxUsers} \cup SeqsUpTo(ShortDicts, MaxShort)

\* blocks of a response text, by the lines the parser looks for:
\* header: the block starts with "profile"; classified: it has a
\* "CLASSIFICATION:" line; words: the upper-cased words after that colon;
\* score: the integer of "<int> / 100" on the SCORE line (-1 when nothing
\* matches)
Block(header, classified, words, score) ==
    [header |-> header, classified |-> classified, words |-> words, score |-> score]

RawBlocks ==
    {Block(FALSE, TRUE, <<"IDEAL", "TARGET">>, 90),
     Block(FALSE, TRUE, <<"POSSIBLE", "TARGET">>, 70),
     Block(FALSE, TRUE, <<"NON-TARGET">>, 10),
     Block(FALSE, TRUE, <<"IDEAL", "TARGET">>, 95),
     Block(FALSE, TRUE, <<"UNSURE">>, 250),
     Block(FALSE, FALSE, <<>>, 80),
     Block(TRUE, TRUE, <<"IDEAL", "TARGET">>, 90),
     Block(FALSE, TRUE, <<"POSSIBLE", "TARGET">>, -1)}

UniformBlocks ==
    {Block(FALSE, TRUE, <<"IDEAL", "TARGET">>, 90), Block(FALSE, FALSE, <<>>, 80)}

\* the first k blocks of a pattern repeated
Cyclic(pattern, k) == [i \in 1..k |-> pattern[((i - 1) % Len(pattern)) + 1]]

NonEmptySeqs(S, n) == SeqsUpTo(S, n) \ {<<>>}

\* behaviours of self.llm.invoke on a batch of n profiles: it raises, or it
\* returns a text of 0..n+1 blocks
Raises == [raises |-> TRUE, blocks |-> <<>>]

Text(blocks) == [raises |-> FALSE, blocks |-> blocks]

InferenceBehaviours(n, total) ==
    {Raises} \cup
    {Text(Cyclic(pattern, k)) :
        pattern \in (IF total <= RichLimit THEN NonEmptySeqs(RawBlocks, 2)
                     ELSE NonEmptySeqs(UniformBlocks, 1)),
        k \in 0..(n + 1)}

\* the label _parse_single_response gives a classification line:
\* if "IDEAL" in classification ... elif "POSSIBLE" in classification ... else
ParseClassification(words) ==
    IF "IDEAL" \in Range(words) THEN "IDEAL TARGET"
    ELSE IF "POSSIBLE" \in Range(words) THEN "POSSIBLE TARGET"
    ELSE "NON-TARGET"

\* _parse_single_response: blocks that start with "profile" or have no
\* classification line give nothing
RECURSIVE parse_single_response(_)
parse_single_response(blocks) ==
    IF blocks = <<>> THEN <<>>
    ELSE LET block == Head(blocks)
             rest == parse_single_response(Tail(blocks))
         IN IF block.header \/ ~block.classified
            THEN rest
            ELSE <<[username |-> <<>>, source |-> "", has_username |-> FALSE,
                    classification |-> ParseClassification(block.words),
                    score |-> IF block.score >= 0 THEN block.score ELSE 0,
                    signals_used |-> <<"signal">>,
                    uncertainties |-> <<>>]>> \o rest

\* mutant: the results are attributed from the end of the batch
Attach_FromEnd(parsed, batch) ==
    [i \in 1..Len(parsed) |->
        IF i <= Len(batch)
        THEN [parsed[i] EXCEPT !.username = lstrip(batch[Len(batch) + 1 - i].username),
                               !.source = batch[Len(batch) + 1 - i].source,
                               !.has_username = TRUE]
        ELSE parsed[i]]

\* for i, res in enumerate(parsed): if i < len(users): attach username, source
Attach(parsed, batch) ==
    [i \in 1..Len(parsed) |->
        IF i <= Len(batch)
        THEN [parsed[i] EXCEPT !.username = lstrip(batch[i].username),
                               !.source = batch[i].source,
                               !.has_username = TRUE]
        ELSE parsed[i]]


\* mutant: the except branch returns nothing
Fallback_None(batch, e) == <<>>

\* the except branch: a NON-TARGET result for each user of the batch
Fallback(batch, e) ==
    [i \in 1..Len(batch) |->
        [username |-> lstrip(batch[i].username), source |-> batch[i].source,
         has_username |-> TRUE,
         classification |-> "NON-TARGET", score |-> 0,
         signals_used |-> <<>>, uncertainties |-> <<e>>]]

filter_batch(batch, response) ==
    IF batch = <<>> THEN <<>>
    ELSE IF response.raises THEN Fallback(batch, "timeout")
    ELSE Attach(parse_single_response(response.blocks), batch)

\* classify_target_accounts: keep the first user of each non-empty identity
RECURSIVE Unique(_, _)
Unique(us, seen) ==
    IF us = <<>> THEN <<>>
    ELSE LET uname == lstrip(Head(us).username)
         IN IF uname # <<>> /\ uname \notin seen
            THEN <<Head(us)>> \o Unique(Tail(us), seen \cup {uname})
            ELSE Unique(Tail(us), seen)

\* user_map = {u.get("username", "").lstrip("@"): u for u in users}
user_map(us) ==
    [uname \in {lstrip(us[i].username) : i \in 1..Len(us)} |->
        us[CHOOSE i \in 1..Len(us) :
              /\ lstrip(us[i].username) = uname
              /\ \A j \in 1..Len(us) : lstrip(us[j].username) = uname => j <= i]]


\* mutant: every result is kept
Dedupe_Keep(results, seen, umap) == results

\* the loop "Ensure every username appears exactly once"
RECURSIVE Dedupe(_, _, _)
Dedupe(results, seen, umap) ==
    IF results = <<>> THEN <<>>
    ELSE LET r == Head(results)
         IN IF r.username = <<>> \/ r.username \in seen
            THEN Dedupe(Tail(results), seen, umap)
            ELSE <<IF r.username \in DOMAIN umap
                   THEN [r EXCEPT !.source = umap[r.username].source]
                   ELSE r>>
                 \o Dedupe(Tail(results), seen \cup {r.username}, umap)

order(classification) ==
    CASE classification = "IDEAL TARGET" -> 0
      [] classification = "POSSIBLE TARGET" -> 1
      [] OTHER -> 2


\* mutant: the key without the score
KeyLess_NoScore(a, b) == order(a.classification) < order(b.classification)

\* key=lambda x: (order.get(...), -(x.get("score") or 0)), compared as tuples
KeyLess(a, b) ==
    \/ order(a.classification) < order(b.classification)
    \/ /\ order(a.classification) = order(b.classification)
       /\ -a.score < -b.score

\* list.sort is stable: insert each element after the elements not greater
RECURSIVE Insert(_, _)
Insert(sorted, x) ==
    IF sorted = <<>> THEN <<x>>
    ELSE IF KeyLess(x, Head(sorted)) THEN <<x>> \o sorted
    ELSE <<Head(sorted)>> \o Insert(Tail(sorted), x)

RECURSIVE Sort(_)
Sort(list) ==
    IF list = <<>> THEN <<>>
    ELSE Insert(Sort(SubSeq(list, 1, Len(list) - 1)), list[Len(list)])

\* users[i : i + BATCH_SIZE]
Batch(us, i) ==
    SubSeq(us, i + 1, IF i + BATCH_SIZE < Len(us) THEN i + BATCH_SIZE ELSE Len(us))

\* a call of classify_target_accounts(users) or brain.classify_accounts(users)
ClassifyCall(entry, input) ==
    /\ cpc = "idle"
    /\ call' = [entry |-> entry, input |-> input]
    /\ users' = IF entry = "classify_target_accounts" THEN Unique(input, {}) ELSE input
    /\ IF users' = <<>>
       THEN cpc' = "done"
       ELSE cpc' = "batches"
    /\ batch_start' = 0
    /\ all_results' = <<>>
    /\ final' = <<>>
    /\ responses' = <<>>
    /\ ClsFrame

\* one iteration of the batch loop: the Inference Service answers
FilterBatch ==
    /\ cpc = "batches"
    /\ batch_start < Len(users)
    /\ \E response \in InferenceBehaviours(Len(Batch(users, batch_start)), Len(users)) :
         /\ all_results' = all_results \o filter_batch(Batch(users, batch_start), response)
         /\ responses' = Append(responses, response)
    /\ batch_start' = batch_start + BATCH_SIZE
    /\ UNCHANGED <<users, cpc, final, call>>
    /\ ClsFrame

\* after the loop: dedupe, merge the source back, sort, return
ClassifyReturn ==
    /\ cpc = "batches"
    /\ batch_start >= Len(users)
    /\ final' = Sort(Dedupe(all_results, {}, user_map(users)))
    /\ cpc' = "done"
    /\ UNCHANGED <<users, batch_start, all_results, responses, call>>
    /\ ClsFrame

ClsInit ==
    /\ call = [entry |-> "", input |-> <<>>]
    /\ users = <<>>
    /\ cpc = "idle"
    /\ batch_start = 0
    /\ all_results = <<>>
    /\ final = <<>>
    /\ responses = <<>>

ClassifyNext ==
    \/ \E entry \in {"classify_target_accounts", "classify_accounts"},
          input \in ClassifyInputs : ClassifyCall(entry, input)
    \/ FilterBatch
    \/ ClassifyReturn

(***************************************************************************)
(* Dataset I/O: output/csv_export.py, Scraper/csv_loader.py and the        *)
(* read-back of browser/scraper_integration.py. A username is the sequence *)
(* of its characters; a file is the sequence of the username cells of its  *)
(* data rows under the header export_to_csv writes. No character of        *)
(* NameChars needs quoting, so csv writes and reads a cell unchanged.      *)
(***************************************************************************)
MaxNameLen == 2

MaxResults == 2

NameChars == {"a", " ", "@"}

\* the result lists, a result being its r.get("username", "")
ResultLists ==
    SeqsUpTo([username : SeqsUpTo(NameChars, MaxNameLen)], MaxResults)

\* os.path.exists(csv_path) fails
NoFile == "no file"

\* str.strip()
RECURSIVE strip(_)
strip(u) ==
    IF u = <<>> THEN u
    ELSE IF Head(u) = " " THEN strip(Tail(u))
    ELSE IF u[Len(u)] = " " THEN strip(SubSeq(u, 1, Len(u) - 1))
    ELSE u

\* export_to_csv: the rows written, one per first occurrence of a non-empty
\* username
RECURSIVE export_to_csv(_, _)
export_to_csv(results, seen) ==
    IF results = <<>> THEN <<>>
    ELSE LET username == Head(results).username
         IN IF username # <<>> /\ username \notin seen
            THEN <<username>> \o export_to_csv(Tail(results), seen \cup {username})
            ELSE export_to_csv(Tail(results), seen)

\* the loop of load_targets_from_csv over the rows of a username file
RECURSIVE LoadRows(_)
LoadRows(rows) ==
    IF rows = <<>> THEN <<>>
    ELSE LET target == strip(Head(rows))
         IN IF target = <<>> THEN LoadRows(Tail(rows))
            ELSE IF Head(target) = "@" THEN <<Tail(target)>> \o LoadRows(Tail(rows))
            ELSE <<target>> \o LoadRows(Tail(rows))

\* load_targets_from_csv: <<>> stands for None, else <<targets>>
load_targets_from_csv(file) ==
    IF file = NoFile THEN <<>>
    ELSE IF LoadRows(file) = <<>> THEN <<>>
    ELSE <<LoadRows(file)>>

\* step 4 of run_scraper_pipeline_sync: the username column read back
RECURSIVE ReadBack(_)
ReadBack(rows) ==
    IF rows = <<>> THEN <<>>
    ELSE LET uname == strip(Head(rows))
         IN IF uname # <<>> THEN <<uname>> \o ReadBack(Tail(rows))
            ELSE ReadBack(Tail(rows))

MaxRows == 3

\* files under the header hashtag,username: each data row a hashtag cell and
\* a username cell, a cell being the sequence of its parts
MixedFiles ==
    SeqsUpTo({<<>>, <<"#", "travel">>, <<"#", "food">>, <<"food">>}
                 \X {<<>>, <<"alice">>, <<"bob">>, <<"@", "bob">>},
             MaxRows)


\* mutant: a row without a hashtag is skipped whole
RECURSIVE LoadMixedRows_NeedsHashtag(_)
LoadMixedRows_NeedsHashtag(rows) ==
    IF rows = <<>> THEN <<>>
    ELSE LET hashtag == strip(Head(rows)[1])
             username == strip(Head(rows)[2])
         IN (IF hashtag = <<>> THEN <<>>
             ELSE (IF Head(hashtag) = "#" THEN <<hashtag>> ELSE << <<"#">> \o hashtag >>)
                  \o (IF username = <<>> THEN <<>>
                      ELSE IF Head(username) = "@" THEN <<Tail(username)>>
                      ELSE <<username>>))
            \o LoadMixedRows_NeedsHashtag(Tail(rows))

\* the loop of load_targets_from_csv over the rows of a two-column file
RECURSIVE LoadMixedRows(_)
LoadMixedRows(rows) ==
    IF rows = <<>> THEN <<>>
    ELSE LET hashtag == strip(Head(rows)[1])
             username == strip(Head(rows)[2])
         IN (IF hashtag = <<>> THEN <<>>
             ELSE IF Head(hashtag) = "#" THEN <<hashtag>>
             ELSE << <<"#">> \o hashtag >>)
            \o (IF username = <<>> THEN <<>>
                ELSE IF Head(username) = "@" THEN <<Tail(username)>>
                ELSE <<username>>)
            \o LoadMixedRows(Tail(rows))

\* OllamaBrain.filter_accounts after the batches: all_filtered holds the
\* items of the Inference Service's replies; an item is kept at the first
\* occurrence of its username without leading '@', with the source of
\* user_map when the username is a key of it and as the reply gave it
\* otherwise (the sort by relevance leaves the set of items alone)
RECURSIVE filter_accounts(_, _, _)
filter_accounts(unique_users, all_filtered, seen) ==
    IF all_filtered = <<>> THEN <<>>
    ELSE LET item == Head(all_filtered)
             username == lstrip(item.username)
         IN IF username = <<>> \/ username \in seen
            THEN filter_accounts(unique_users, Tail(all_filtered), seen)
            ELSE <<[username |-> item.username,
                    source |-> IF username \in unique_users THEN "scraped" ELSE "reply"]>>
                 \o filter_accounts(unique_users, Tail(all_filtered),
                                    seen \cup {username})

NoIo == [pc |-> "idle", scraped |-> {}, results |-> <<>>, file |-> NoFile,
         loaded |-> "unread", readback |-> "unread", mixed |-> "unread",
         page |-> "none", all_users |-> <<>>]

SYSTEM_USERNAMES == {"explore", "p", "reel", "reels", "stories", "accounts", "direct"}

\* is_valid_username(username, logged_in_user); "" is the empty string and
\* None as a username, "None" the default of logged_in_user
is_valid_username(username, logged_in_user) ==
    /\ username # ""
    /\ username \notin SYSTEM_USERNAMES
    /\ username # logged_in_user

\* _extract_post_owner(page, logged_in_user): page.meta is the first
\* @name of the og:description, page.title the well-formed name before
\* ' on Instagram', page.links the names of the profile links, each ""
\* or <<>> when the page has none or the strategy raises;
\* Counter(candidates).most_common(1) is the earliest of the most frequent
extract_post_owner(page, logged_in_user) ==
    IF is_valid_username(page.meta, logged_in_user) THEN page.meta
    ELSE IF is_valid_username(page.title, logged_in_user) THEN page.title
    ELSE LET candidates ==
                 SelectSeq(page.links, LAMBDA uname : is_valid_username(uname, logged_in_user))
             Count(c) == Cardinality({i \in 1..Len(candidates) : candidates[i] = c})
             First(c) == CHOOSE i \in 1..Len(candidates) :
                             /\ candidates[i] = c
                             /\ \A j \in 1..Len(candidates) : candidates[j] = c => i <= j
         IN IF candidates = <<>> THEN ""
            ELSE CHOOSE c \in Range(candidates) :
                     \A d \in Range(candidates) :
                         \/ Count(d) < Count(c)
                         \/ Count(d) = Count(c) /\ First(c) <= First(d)

\* one post of scrape_hashtags_sync: owner = _extract_post_owner(page), with
\* logged_in_user left at its default; if owner and owner not in seen:
\* all_users.append({"username": owner, "source": "post_owner", ...})
ExaminePost(page) ==
    /\ io.pc \in {"idle", "scraping"}
    /\ LET owner == extract_post_owner(page, "None")
           seen == {io.all_users[i].username : i \in 1..Len(io.all_users)}
       IN io' = [io EXCEPT
              !.pc = "scraping",
              !.page = page,
              !.all_users = IF owner # "" /\ owner \notin seen
                            THEN Append(@, User(owner, "post_owner")) ELSE @]
    /\ UNCHANGED csvrun
    /\ IoFrame

\* steps 2 and 3 of run_scraper_pipeline_sync on the usernames scraped and
\* the replies of the Inference Service: results = analyze_accounts(scraped,
\* ...); if not results: return []; csv_path = export_to_csv(results, ...).
\* A username <<"null">> stands for the JSON null: json.loads accepts the
\* reply, and item.get("username", "").lstrip("@") in filter_accounts, which
\* no try block holds, raises AttributeError out of the pipeline
AnalyzeScraped(scraped, all_filtered) ==
    /\ io.pc = "idle"
    /\ scraped # {}
    /\ LET results == filter_accounts(scraped, all_filtered, {})
       IN io' = IF \E i \in 1..Len(all_filtered) : all_filtered[i].username = <<"null">>
                THEN [io EXCEPT !.pc = "raised", !.scraped = scraped]
                ELSE IF results = <<>>
                THEN [io EXCEPT !.pc = "returned", !.scraped = scraped,
                                !.readback = <<>>]
                ELSE [io EXCEPT !.pc = "exported", !.scraped = scraped,
                                !.results = results,
                                !.file = export_to_csv(results, {})]
    /\ UNCHANGED csvrun
    /\ IoFrame

\* load_targets_from_csv(csv_path) on a two-column file: None (here <<>>)
\* without targets, else the dict
LoadMixed(file) ==
    /\ io.pc = "idle"
    /\ LET targets == LoadMixedRows(file)
       IN io' = [io EXCEPT
              !.pc = "loaded",
              !.file = file,
              !.mixed = IF targets = <<>> THEN <<>>
                        ELSE <<[type |-> "mixed", targets |-> targets,
                                count |-> Len(targets)]>>]
    /\ UNCHANGED csvrun
    /\ IoFrame

\* csv_path = export_to_csv(results, target_customer)
ExportResults(results) ==
    /\ io.pc = "idle"
    /\ io' = [io EXCEPT !.pc = "exported", !.results = results,
                        !.file = export_to_csv(results, {})]
    /\ UNCHANGED csvrun
    /\ IoFrame

\* load_targets_from_csv(csv_path) on the exported file
LoadExported ==
    /\ io.pc = "exported" /\ io.loaded = "unread"
    /\ io' = [io EXCEPT !.loaded = load_targets_from_csv(io.file)]
    /\ UNCHANGED csvrun
    /\ IoFrame

\* the read-back of run_scraper_pipeline_sync on the exported file
ReadBackExported ==
    /\ io.pc = "exported" /\ io.readback = "unread"
    /\ io' = [io EXCEPT !.readback = ReadBack(io.file)]
    /\ UNCHANGED csvrun
    /\ IoFrame

\* the files a visit run is given: none, a header alone, a blank cell, one
\* username, two usernames
CsvFiles ==
    {NoFile, <<>>, << <<" ">> >>, << <<"a">> >>, << <<"a">>, <<"@", "a", "a">> >>}

NoCsvRun == [pc |-> "idle", stop_flag |-> NoStopFlag, csv_data |-> <<>>,
             index |-> 0, visited_count |-> 0, context_open |-> FALSE]

\* run_csv_profile_visit(account_path, csv_path, stop_flag=...):
\* csv_data = load_targets_from_csv(csv_path, log);
\* if not csv_data: log(...); return
RunCsvVisit(file, stop_flag) ==
    /\ csvrun.pc = "idle"
    /\ stop_flag = NoStopFlag \/ stop_flag \in DOMAIN tasks
    /\ LET csv_data == load_targets_from_csv(file)
       IN csvrun' = [NoCsvRun EXCEPT
              !.stop_flag = stop_flag,
              !.csv_data = csv_data,
              !.pc = IF csv_data = <<>> THEN "returned" ELSE "launch"]
    /\ UNCHANGED io
    /\ IoFrame

\* with sync_playwright() as p: launch_instagram_browser(...), which can raise
CsvLaunch ==
    /\ csvrun.pc = "launch"
    /\ \E launched \in BOOLEAN :
         csvrun' = IF launched
                   THEN [csvrun EXCEPT !.pc = "loop", !.index = 1,
                                       !.context_open = TRUE]
                   ELSE [csvrun EXCEPT !.pc = "raised"]
    /\ UNCHANGED io
    /\ IoFrame

\* one iteration of the loop over the targets: the break on should_stop(),
\* else the visit in its try block; after the loop context.close()
CsvVisitTarget ==
    /\ csvrun.pc = "loop"
    /\ IF \/ csvrun.index > Len(csvrun.csv_data[1])
          \/ csvrun.stop_flag # NoStopFlag /\ is_stopped(csvrun.stop_flag)
       THEN csvrun' = [csvrun EXCEPT !.pc = "returned", !.context_open = FALSE]
       ELSE \E outcome \in {"visited", "not_found", "search_raises", "scroll_raises"} :
              csvrun' = [csvrun EXCEPT
                  !.index = @ + 1,
                  !.visited_count =
                      @ + (IF outcome \in {"visited", "scroll_raises"} THEN 1 ELSE 0)]
    /\ UNCHANGED io
    /\ IoFrame

IoInit ==
    /\ io = NoIo
    /\ csvrun = NoCsvRun

RoundTripNext ==
    \/ io.pc = "idle" /\ \E file \in MixedFiles : LoadMixed(file)
    \/ io.pc = "idle" /\ \E results \in ResultLists : ExportResults(results)
    \/ io.pc = "idle" /\ \E scraped \in {{<<"a">>}, {<<"a">>, <<"a", "a">>}},
                            all_filtered \in ResultLists :
            AnalyzeScraped(scraped, all_filtered)
    \/ io.pc = "idle" /\ \E username \in {<<"a">>, <<"null">>} :
            AnalyzeScraped({<<"a">>}, <<[username |-> <<"a">>], [username |-> username]>>)
    \/ LoadExported
    \/ ReadBackExported

Init == RegInit /\ SessInit /\ ClsInit /\ SupInit /\ IoInit

SpecRoundTrip == Init /\ [][RoundTripNext]_vars

\* post pages of a session of the account "me": the og:description and the
\* title name nobody, the account, a system name or another account; the
\* profile links name any of them
OwnerNext ==
    \E meta \in {"", "me", "explore", "alice"}, title \in {"", "me", "reels", "bob"},
       links \in {<<>>, <<"me">>, <<"alice", "me", "me">>, <<"explore", "bob">>,
                  <<"bob", "alice">>} :
        ExaminePost([meta |-> meta, title |-> title, links |-> links])

SpecOwner == Init /\ [][OwnerNext]_vars

\* one POST /scrolling/csv-visit task and its worker, the stop endpoint, and
\* a call of run_csv_profile_visit
CsvNext ==
    \/ StartWorker(1, "csv")
    \/ \E t \in TaskIds : stop_running_task(t)
    \/ \E t \in TaskIds : WorkerStart(t)
    \/ \E t \in TaskIds : WorkerGetCookies(t)
    \/ \E t \in TaskIds : WorkerCall(t)
    \/ \E t \in TaskIds : WorkerExcept(t)
    \/ \E t \in TaskIds : WorkerSetAttr(t)
    \/ \E file \in CsvFiles, stop_flag \in TaskIds \cup {NoStopFlag} :
            RunCsvVisit(file, stop_flag)
    \/ CsvLaunch
    \/ CsvVisitTarget

SpecCsv == Init /\ [][CsvNext]_vars

TaskNext ==
    \/ \E t \in TaskIds, k \in WorkerKinds : StartWorker(t, k)
    \/ \E t \in TaskIds : stop_running_task(t)
    \/ \E t \in TaskIds : get_task_status(t)
    \/ get_all_tasks
    \/ \E t \in TaskIds : WorkerStart(t)
    \/ \E t \in TaskIds : WorkerGetCookies(t)
    \/ \E t \in TaskIds : WorkerCall(t)
    \/ \E t \in TaskIds : WorkerExcept(t)
    \/ \E t \in TaskIds : WorkerSetAttr(t)

SpecTasks == Init /\ [][TaskNext]_vars

\* POST /brain/classify tasks, their workers and the task endpoints
BrainNext ==
    \/ \E t \in TaskIds : StartWorker(t, "classify")
    \/ \E t \in TaskIds : stop_running_task(t)
    \/ \E t \in TaskIds : get_task_status(t)
    \/ get_all_tasks
    \/ \E t \in TaskIds : WorkerStart(t)
    \/ \E t \in TaskIds : WorkerCall(t)
    \/ \E t \in TaskIds : WorkerExcept(t)
    \/ \E t \in TaskIds : WorkerSetAttr(t)

SpecBrain == Init /\ [][BrainNext]_vars

SpecClassify == Init /\ [][ClassifyNext]_vars

\* the caller of a session creates the task whose flag the run will read:
\* create_task(description)
CreateTask(task_id) ==
    /\ spc = "idle" /\ tasks = <<>>
    /\ HasFreshId /\ task_id = FreshId
    /\ tasks' = create_task_tasks(task_id, "session")
    /\ stop_flags' = create_task_flags(task_id)
    /\ stop_seen' = DictSet(stop_seen, task_id, NeverStopped)
    /\ UNCHANGED <<wkind, wpc, wupd, wexc>>
    /\ RegFrame

SessionNext ==
    \/ \E t \in TaskIds : CreateTask(t)
    \/ \E t \in TaskIds : stop_running_task(t)
    \/ \E kind \in SessionKinds, stop_flag \in TaskIds \cup {NoStopFlag},
          search_targets \in BOOLEAN :
            RunSession(kind, ShortDuration, stop_flag, search_targets, 1)
    \/ SessionStep

SpecSession == Init /\ [][SessionNext]_vars

\* a run in progress is never abandoned: every call of the orchestrator
\* returns or raises
SpecSessionFair == SpecSession /\ WF_vars(SessionStep)

\* scraper-enabled sessions long enough for two scrape triggers, no search
\* targets, no stop callable
ScrapeNext ==
    \/ \E max_scraped_accounts \in 1..MaxCap :
            RunSession("scraper", LongDuration, NoStopFlag, FALSE, max_scraped_accounts)
    \/ CycleTop
    \/ ScrollAndLike
    \/ ScrapeGate
    \/ \E found \in PostYields : ScrapeHashtag(RunLinks, found)
    \/ \E outcome \in PipelineOutcomes, new_usernames \in PipelineResults :
            ScrapeTrigger(outcome, new_usernames, 0)
    \/ VisitGate
    \/ VisitSearch
    \/ ExploreGate
    \/ PageScrollCheck
    \/ PageScrollStep
    \/ PageScrollReturn
    \/ VisitBack(0)
    \/ SessionReturn

SpecScrape == Init /\ [][ScrapeNext]_vars

\* scraper-enabled sessions on a site whose hashtag pages list any posts, in
\* any order and with repetitions, and whose accounts the analysis filters out
VisitedNext ==
    \/ RunSession("scraper", LongDuration, NoStopFlag, FALSE, 1)
    \/ CycleTop
    \/ ScrollAndLike
    \/ ScrapeGate
    \/ \E links \in PageLinks, found \in PostYields : ScrapeHashtag(links, found)
    \/ \E outcome \in PipelineOutcomes : ScrapeTrigger(outcome, <<>>, 0)
    \/ VisitGate
    \/ ExploreGate
    \/ SessionReturn

SpecVisited == Init /\ [][VisitedNext]_vars

\* scraper-enabled sessions on a site whose hashtag pages all list every
\* post, and on which no post gives an owner (the navigation raises, or every
\* strategy of _extract_post_owner fails)
FailingNext ==
    \/ RunSession("scraper", LongDuration, NoStopFlag, FALSE, 1)
    \/ CycleTop
    \/ ScrollAndLike
    \/ ScrapeGate
    \/ ScrapeHashtag([i \in 1..MaxPosts |-> "p" \o ToString(i)], 0)
    \/ \E outcome \in PipelineOutcomes : ScrapeTrigger(outcome, <<>>, 0)
    \/ VisitGate
    \/ ExploreGate
    \/ SessionReturn

SpecFailing == Init /\ [][FailingNext]_vars

\* lists the pipeline returns in the sessions below: none, one identity, and
\* a list that names that identity twice before a second one
RepeatingResults == {<<>>, <<"u1">>, <<"u1", "u1", "u2">>}

\* scraper-enabled sessions in which the pipeline and a visit take time
CooldownNext ==
    \/ RunSession("scraper", LongDuration, NoStopFlag, FALSE, MaxCap)
    \/ CycleTop
    \/ ScrollAndLike
    \/ ScrapeGate
    \/ ScrapeHashtag(RunLinks, 1 + MAX_COMMENTERS_PER_POST)
    \/ \E outcome \in PipelineOutcomes, new_usernames \in RepeatingResults,
          took \in {0, Tick} : ScrapeTrigger(outcome, new_usernames, took)
    \/ VisitGate
    \/ VisitSearch
    \/ ExploreGate
    \/ PageScrollCheck
    \/ PageScrollStep
    \/ PageScrollReturn
    \/ \E took \in {0, Tick} : VisitBack(took)
    \/ SessionReturn

SpecCooldown == Init /\ [][CooldownNext]_vars

\* the supervisor over sessions without search targets, its stop callable
\* bound to a task
InfiniteNext ==
    \/ \E t \in TaskIds : CreateTask(t)
    \/ \E t \in TaskIds : stop_running_task(t)
    \/ \E kind \in SessionKinds, stop_flag \in TaskIds,
          active_range \in ActiveRanges, rest_range \in RestRanges :
            StartInfinite(kind, stop_flag, active_range, rest_range)
    \/ SupervisorTop
    \/ SupervisorCall
    \/ CycleTop
    \/ ScrollAndLike
    \/ ScrapeGate
    \/ ScrapeHashtag(RunLinks, 1 + MAX_COMMENTERS_PER_POST)
    \/ \E outcome \in PipelineOutcomes, new_usernames \in {<<>>, <<"u1">>} :
            ScrapeTrigger(outcome, new_usernames, 0)
    \/ VisitGate
    \/ VisitSearch
    \/ ExploreGate
    \/ PageScrollCheck
    \/ PageScrollStep
    \/ PageScrollReturn
    \/ VisitBack(0)
    \/ SessionReturn
    \/ SupervisorAccumulate
    \/ SupervisorRaise
    \/ RestLoop
    \/ AfterRest

SpecInfinite == Init /\ [][InfiniteNext]_vars

(***************************************************************************)
(* Properties                                                              *)
(***************************************************************************)

\* what the except branch of _filter_batch gives an identity
IsFallback(r) ==
    /\ r.classification = "NON-TARGET"
    /\ r.score = 0
    /\ r.signals_used = <<>>
    /\ r.uncertainties = <<"timeout">>

Identity(i) == lstrip(users[i].username)

\* the batch (1, 2, ...) the i-th user of classify_accounts falls in
BatchOf(i) == ((i - 1) \div BATCH_SIZE) + 1

\* the index at which an identity first occurs among the users
FirstIndex(i) == CHOOSE j \in 1..i : Identity(j) = Identity(i) /\
                                     \A k \in 1..(j - 1) : Identity(k) # Identity(i)

ResultsFor(uname) == {k \in 1..Len(final) : final[k].username = uname}

DistinctNonEmpty(input) ==
    /\ \A i \in 1..Len(input) : lstrip(input[i].username) # <<>>
    /\ \A i, j \in 1..Len(input) :
         lstrip(input[i].username) = lstrip(input[j].username) => i = j

SameVerdict(r, q) ==
    /\ r.classification = q.classification
    /\ r.score = q.score
    /\ r.signals_used = q.signals_used
    /\ r.uncertainties = q.uncertainties

\* C1: a call of classify_target_accounts on n distinct non-empty identities
\* returns exactly n results, exactly one per input identity, whatever the
\* Inference Service did on each batch.
C1_AsStated ==
    (cpc = "done" /\ call.entry = "classify_target_accounts"
                  /\ DistinctNonEmpty(call.input)) =>
        /\ Len(final) = Len(call.input)
        /\ \A i \in 1..Len(call.input) :
             Cardinality({k \in 1..Len(final) :
                            final[k].username = lstrip(call.input[i].username)}) = 1

\* C2: when the Inference Service raised on a batch, every identity of that
\* batch (first met in it) has exactly one result, and it is the fallback:
\* NON-TARGET, score 0, no signals, the failure message as only uncertainty;
\* every identity of a batch that did not raise has the verdict of the block
\* of its own batch's response at its position, or no result when that
\* response has no such block; and 13 candidates with batch 2 of 3 raising
\* and full responses on batches 1 and 3 give 13 results of which exactly
\* candidates 6..10 are fallbacks.
C2_BatchFallback ==
    cpc = "done" =>
        /\ \A i \in 1..Len(users) :
             (Identity(i) # <<>> /\ FirstIndex(i) = i) =>
                LET b == BatchOf(i)
                    pos == i - (b - 1) * BATCH_SIZE
                    parsed == parse_single_response(responses[b].blocks)
                    mine == ResultsFor(Identity(i))
                IN IF responses[b].raises
                   THEN /\ Cardinality(mine) = 1
                        /\ \A k \in mine : IsFallback(final[k])
                   ELSE IF pos <= Len(parsed)
                   THEN /\ Cardinality(mine) = 1
                        /\ \A k \in mine : SameVerdict(final[k], parsed[pos])
                   ELSE mine = {}
        /\ ( /\ Len(users) = 13
             /\ Len(responses) = 3
             /\ ~responses[1].raises /\ responses[2].raises /\ ~responses[3].raises
             /\ Len(parse_single_response(responses[1].blocks)) = 5
             /\ Len(parse_single_response(responses[3].blocks)) = 3 ) =>
               /\ Len(final) = 13
               /\ {final[k].username : k \in {j \in 1..Len(final) : IsFallback(final[j])}}
                    = {Identity(i) : i \in 6..10}

C2_Witness ==
    /\ cpc = "done"
    /\ Len(users) = 13
    /\ Len(responses) = 3
    /\ ~responses[1].raises /\ responses[2].raises /\ ~responses[3].raises
    /\ Len(final) = 13

\* C3: a task is created pending; its status changes only by a step of its
\* own worker, only from pending to running or from running to completed,
\* failed or stopped, never in a step that changes a cancellation flag, and
\* never once it is terminal.
C3_StatusHistory ==
    [][ /\ \A t \in (DOMAIN tasks') \ (DOMAIN tasks) : tasks'[t].status = PENDING
        /\ \A t \in DOMAIN tasks :
             /\ t \in DOMAIN tasks'
             /\ tasks'[t].status # tasks[t].status =>
                  /\ <<tasks[t].status, tasks'[t].status>> \in
                       ({<<PENDING, RUNNING>>} \cup ({RUNNING} \X Terminal))
                  /\ wpc'[t] # wpc[t] \/ wupd'[t] # wupd[t]
                  /\ stop_flags' = stop_flags ]_vars

C3_Witness ==
    \E t \in DOMAIN tasks, o \in DOMAIN tasks :
        /\ t # o
        /\ tasks[t].status = FAILED /\ wpc[t] = "done"
        /\ stop_flags[t] /\ stop_seen[t] = RUNNING
        /\ tasks[o].status = RUNNING

\* C4: a task whose cancellation flag was set while it was running, and
\* whose worker met no failing Credential Store, Automation Surface or
\* Inference call, ends completed or stopped with its normal message, never
\* failed.
C4_AsStated ==
    \A t \in DOMAIN tasks :
        ( /\ stop_seen[t] = RUNNING
          /\ wpc[t] = "done"
          /\ wexc[t] \notin {NoCookies, CredentialStoreError, SessionError} ) =>
            /\ tasks[t].status \in {COMPLETED, STOPPED}
            /\ tasks[t].message = WorkerFinished(wkind[t])

\* C5: a stop request on an existing task sets that task's cancellation flag
\* and leaves the status, message, result and logs of every task as they were.
C5_StopFrame ==
    [][ \A t \in TaskIds : stop_running_task(t) =>
          /\ t \in DOMAIN stop_flags' /\ stop_flags'[t]
          /\ \A o \in DOMAIN tasks :
               /\ o \in DOMAIN tasks'
               /\ tasks'[o].status = tasks[o].status
               /\ tasks'[o].message = tasks[o].message
               /\ tasks'[o].result = tasks[o].result
               /\ tasks'[o].logs = tasks[o].logs ]_vars

C5_Witness ==
    \E t \in DOMAIN tasks :
        /\ stop_flags[t] /\ stop_seen[t] = RUNNING
        /\ tasks[t].status = RUNNING
        /\ tasks[t].logs # <<>>

\* C6: a task's cancellation flag is false from its creation for as long as
\* no stop was requested on it, and once true it is true in every later
\* state, whatever registry operation or worker step comes next.
C6_FlagMonotone ==
    /\ [](\A t \in DOMAIN tasks :
             /\ t \in DOMAIN stop_flags
             /\ is_stopped(t) <=> stop_seen[t] # NeverStopped)
    /\ [][ /\ \A t \in (DOMAIN stop_flags') \ (DOMAIN stop_flags) : ~stop_flags'[t]
           /\ \A t \in DOMAIN stop_flags :
                /\ t \in DOMAIN stop_flags'
                /\ stop_flags[t] => stop_flags'[t] ]_vars

C6_Witness ==
    \E t \in DOMAIN tasks, o \in DOMAIN tasks :
        /\ t < o
        /\ is_stopped(t) /\ stop_seen[t] = PENDING
        /\ tasks[t].status = FAILED /\ tasks[t].message # WorkerDescription(wkind[t])
        /\ ~is_stopped(o) /\ tasks[o].status = FAILED

\* C7: no cycle of the orchestrator loop begins once the elapsed time has
\* reached the session duration, none begins with the cancellation flag set,
\* and every run that entered the loop leaves it: it returns, or an
\* exception of a collaborator ends it.
C7_LoopGuardAndExit ==
    /\ [](hist.late_cycles = 0 /\ hist.cycles_after_stop = 0)
    /\ [](spc = "top" => <>(spc \in {"returned", "raised"}))

C7_Witness ==
    /\ spc = "returned"
    /\ cfg.kind = "scraper"
    /\ hist.cycles = ShortTicks
    /\ now - sess.start_time >= cfg.session_duration
    /\ ret.should_continue

\* C8: when the first stop request arrives while an explore is in flight,
\* the task is not terminal at that instant, scroll_on_page begins no
\* iteration after its next flag test (at most the press already past the
\* test still happens), no further cycle begins and so no feed scroll lets the
\* clock of the model pass the reading of the request, the while test is
\* evaluated once more and the run returns with should_continue false
\* whatever is left of the session duration; and the run does return.
C8_StopMidExplore ==
    /\ [](hist.stop_at = "explore" =>
            /\ stop_seen[cfg.stop_flag] \notin Terminal
            /\ hist.page_steps_after_stop = 0
            /\ hist.presses_after_stop <= 1
            /\ hist.cycles_after_stop = 0
            /\ hist.topchecks_after_stop <= 1
            /\ spc = "returned" =>
                 /\ hist.topchecks_after_stop = 1
                 /\ ~ret.should_continue
                 /\ now = hist.stop_time)
    /\ [](hist.stop_at = "explore" => <>(spc = "returned"))

C8_Witness ==
    /\ hist.stop_at = "explore"
    /\ cfg.kind = "scraper"
    /\ hist.presses_after_stop = 1
    /\ spc = "returned"
    /\ now - sess.start_time < cfg.session_duration

\* C9: the visit queue never holds more than max_scraped_accounts identities.
C9_QueueCap ==
    Len(sess.scraped_usernames) <= cfg.max_scraped_accounts

C9_Witness ==
    /\ sess.scraper_runs = 2
    /\ hist.refused
    /\ Len(sess.scraped_usernames) = cfg.max_scraped_accounts

\* C10: profiles_visited is at most the number of identities dequeued for a
\* visit, which is at most the number of identities ever enqueued.
C10_VisitedDequeuedEnqueued ==
    /\ sess.profiles_visited <= hist.dequeued
    /\ hist.dequeued <= hist.enqueued

C10_Witness ==
    /\ sess.profiles_visited = 1
    /\ hist.dequeued = 2
    /\ hist.enqueued = 2

\* C11: within one session the visited-post set never loses a post, a post
\* URL is in it exactly when the scraper went to it, and no post URL is gone
\* to more than once, whether it is listed again under another hashtag of
\* the same invocation or in a later invocation of the pipeline.
C11_VisitedOnce ==
    /\ [](\A p \in Posts : /\ hist.gotos[p] <= 1
                            /\ hist.gotos[p] = 1 <=> p \in sess.visited_posts)
    /\ [][spc # "idle" => sess.visited_posts \subseteq sess'.visited_posts]_vars

C11_Witness ==
    /\ sess.scraper_runs = 2
    /\ sess.hashtags_done = 2
    /\ sess.collected > 0
    /\ hist.skipped
    /\ sess.visited_posts = Posts
    /\ \A p \in Posts : hist.gotos[p] = 1

\* the place of a returned identity among the users of classify_accounts
PositionOf(uname) ==
    CHOOSE i \in 1..Len(users) :
        /\ Identity(i) = uname
        /\ \A k \in 1..(i - 1) : Identity(k) # uname

\* C14: the returned list is in ascending label rank (IDEAL TARGET, POSSIBLE
\* TARGET, NON-TARGET); within a label in descending score; and two results
\* of equal label and equal score stand in the order of their identities in
\* the input.
C14_Ranking ==
    cpc = "done" =>
        \A i, j \in 1..Len(final) :
            i < j =>
                /\ order(final[i].classification) <= order(final[j].classification)
                /\ final[i].classification = final[j].classification =>
                      /\ final[i].score >= final[j].score
                      /\ final[i].score = final[j].score =>
                            PositionOf(final[i].username) < PositionOf(final[j].username)

C14_Witness ==
    /\ cpc = "done"
    /\ \E i, j \in 1..Len(final) :
          /\ i < j
          /\ final[i].classification = final[j].classification
          /\ final[i].score = final[j].score
    /\ \E i, j \in 1..Len(final) :
          /\ i < j
          /\ final[i].classification = final[j].classification
          /\ final[i].score > final[j].score
          /\ PositionOf(final[i].username) > PositionOf(final[j].username)
    /\ \E i, j \in 1..Len(final) :
          /\ i < j
          /\ order(final[i].classification) < order(final[j].classification)
          /\ PositionOf(final[i].username) > PositionOf(final[j].username)

\* C15: no two results of the returned list have the same identity, and none
\* has the empty identity, also when the input names an identity several
\* times, with or without a leading "@", and when a response has more blocks
\* than the batch has profiles.
C15_NoDuplicates ==
    cpc = "done" =>
        \A i, j \in 1..Len(final) :
            /\ final[i].username # <<>>
            /\ final[i].username = final[j].username => i = j

C15_Witness ==
    /\ cpc = "done"
    /\ \E i, j \in 1..Len(call.input) :
          /\ i # j
          /\ call.input[i].username # call.input[j].username
          /\ lstrip(call.input[i].username) = lstrip(call.input[j].username)
          /\ \E k \in 1..Len(final) : final[k].username = lstrip(call.input[i].username)
    /\ Len(all_results) > Len(users)
    /\ Len(users) > 1

\* C17: no failure of an Automation Surface call made in a cycle of the
\* orchestrator loop (scroll step, like, search, page scroll, follow, return
\* to the home feed) ends the run: a run leaves by an exception only when the
\* launch before the loop, or the analysis or export of the pipeline, raised.
C17_AsStated ==
    hist.raised \in {"no", "launch", "pipeline"}

\* C19: the browser context of a run is open from the launch to the end of
\* the loop and closed in every state in which the call has left, by its
\* return (duration reached or cancellation observed) or by an exception;
\* the worker writes the terminal status after the call has left.
C19_ContextClosed ==
    /\ spc \in {"returned", "raised"} => ~sess.context_open
    /\ spc \notin {"idle", "returned", "raised"} => sess.context_open

C19_Witness ==
    /\ spc = "raised"
    /\ hist.raised = "scroll"
    /\ is_stopped(cfg.stop_flag)
    /\ hist.cycles > 1
    /\ ~sess.context_open

\* what the supervisor reports for a counter (0 when its totals lack it)
TotalOf(k) == StatOf(sup.total_stats, k)

\* the supervisor's guards: no session, rest or rest sleep begins on a test
\* that saw the stop flag set, and a stop during a rest lets no session follow
SupervisorGuards ==
    /\ suph.sessions_after_stop = 0
    /\ suph.rests_after_stop = 0
    /\ suph.sleeps_after_stop = 0
    /\ suph.stop_at \in {"rest", "after_rest"} =>
          /\ sup.total_stats.sessions = suph.stop_runs
          /\ sup.pc \in {"rest", "after_rest", "ended"}

\* C12: once the stop flag is set the supervisor starts no further session and
\* leaves a rest at the next increment test; when it has ended, the totals it
\* returns are those of the sessions run (for a stop during the first rest:
\* one session, and exactly that session's stats)
C12_AsStated ==
    /\ SupervisorGuards
    /\ sup.pc = "ended" =>
          /\ sup.total_stats.sessions = suph.runs
          /\ \A k \in Counters : TotalOf(k) = suph.sum[k]
    /\ (sup.pc = "ended" /\ suph.stop_at = "rest" /\ suph.stop_runs = 1) =>
          /\ sup.total_stats.sessions = 1
          /\ \A k \in Counters : TotalOf(k) = suph.first[k]

\* C13: when the supervisor has ended, the sessions count it returns is the
\* number of session runs it invoked and, for each of scrolls, likes, explores,
\* scraper_runs and profiles_visited, the total it returns is the sum of that
\* counter over those runs
C13_AsStated ==
    sup.pc = "ended" =>
        /\ sup.total_stats.sessions = suph.runs
        /\ \A k \in Counters : TotalOf(k) = suph.sum[k]

\* a stop during the first rest of a supervisor given (10, 10) and (5, 5)
\* that has ended
C12_Scenario ==
    /\ sup.pc = "ended" /\ suph.stop_at = "rest" /\ suph.stop_runs = 1
    /\ sup.active_range = <<10, 10>> /\ sup.rest_range = <<5, 5>>
    /\ sup.total_stats.sessions = 1 /\ sup.total_stats.scrolls = 1

\* C16: whatever a status poll reads while workers update, a task seen
\* completed carries the message and the result of the update that completed
\* it, and a task seen failed carries the error message of the update that
\* failed it
C16_AsStated ==
    \A t \in DOMAIN tasks :
        /\ get_task(t)[1].status = COMPLETED =>
              /\ get_task(t)[1].message = WorkerFinished(wkind[t])
              /\ get_task(t)[1].result # NoResult
        /\ get_task(t)[1].status = FAILED => get_task(t)[1].message = wexc[t]

\* the identities of the results export_to_csv wrote
ExportedIdentities == {r.username : r \in Range(io.results)} \ {<<>>}

\* C20: after an export, what load_targets_from_csv loads from the file and
\* what the read-back of run_scraper_pipeline_sync reads from it are each
\* exactly the set of usernames of the exported results (the loader's None
\* counted as the empty set)
C20_AsStated ==
    /\ io.loaded # "unread" =>
          (IF io.loaded = <<>> THEN {} ELSE Range(io.loaded[1])) = ExportedIdentities
    /\ io.readback # "unread" => Range(io.readback) = ExportedIdentities

\* C18: a task whose worker found no cookies ends failed with that error as
\* its message and is never completed; and a run of run_csv_profile_visit
\* whose load of the target CSV failed does not return normally (the worker
\* answers every normal return with completed, and fails a task only on an
\* exception, whose text it attaches)
C18_AsStated ==
    /\ \A t \in DOMAIN tasks :
          wexc[t] = NoCookies =>
              /\ tasks[t].status # COMPLETED
              /\ wpc[t] = "done" =>
                    tasks[t].status = FAILED /\ tasks[t].message = NoCookies
    /\ csvrun.pc = "returned" => csvrun.csv_data # <<>>

\* the file of rows (#travel, alice), (, bob), (#food, )
ScenarioFile ==
    << << <<"#", "travel">>, <<"alice">> >>,
       << <<>>, <<"bob">> >>,
       << <<"#", "food">>, <<>> >> >>

\* the cells of a file that are not blank, in reading order
RECURSIVE FilledCells(_)
FilledCells(rows) ==
    IF rows = <<>> THEN <<>>
    ELSE SelectSeq(Head(rows), LAMBDA cell : strip(cell) # <<>>)
         \o FilledCells(Tail(rows))

\* C21 (as the code has it): a two-column file loads to one target per cell
\* that is not blank, in reading order, under kind mixed; the file of rows
\* (#travel, alice), (, bob), (#food, ) loads to exactly the four targets
\* #travel, alice, bob, #food
C21_MixedLoad ==
    io.pc = "loaded" =>
        /\ io.mixed = <<>> <=> FilledCells(io.file) = <<>>
        /\ io.mixed # <<>> =>
              /\ io.mixed[1].type = "mixed"
              /\ io.mixed[1].count = Len(FilledCells(io.file))
              /\ Len(io.mixed[1].targets) = Len(FilledCells(io.file))
        /\ io.file = ScenarioFile =>
              io.mixed = <<[type |-> "mixed", count |-> 4,
                            targets |-> << <<"#", "travel">>, <<"alice">>,
                                           <<"bob">>, <<"#", "food">> >>]>>

C21_Witness ==
    /\ io.pc = "loaded" /\ io.file = ScenarioFile
    /\ io.mixed # <<>> /\ io.mixed[1].count = 4

\* C21 as stated: the file of rows (#travel, alice), (, bob), (#food, ) loads
\* to kind mixed with exactly the three identities #travel, alice, #food
C21_AsStated ==
    (io.pc = "loaded" /\ io.file = ScenarioFile) =>
        /\ io.mixed # <<>>
        /\ io.mixed[1].type = "mixed"
        /\ Range(io.mixed[1].targets) =
              {<<"#", "travel">>, <<"alice">>, <<"#", "food">>}
        /\ Len(io.mixed[1].targets) = 3

\* C22: once the stop flag is set during a cycle, no scrape trigger, visit or
\* explore phase begins in the run
C22_AsStated == hist.after_stop = "none"

\* the place the claimed order gives a phase
ClaimedPlace(phase) ==
    CASE phase = "scroll" -> 1
      [] phase = "explore" -> 2
      [] phase = "scrape" -> 3
      [] phase = "visit" -> 4

\* C23: the phases of a cycle begin in the order scroll, explore, scrape
\* trigger, visit
C23_AsStated ==
    \A i, j \in 1..Len(hist.phases) :
        i < j => ClaimedPlace(hist.phases[i]) < ClaimedPlace(hist.phases[j])

\* C24: at the end of every cycle the explores counter is the number of
\* explore attempts and the explore timestamp is the time of the last of
\* them, and no explore attempt begins within the cooldown of the one before
C24_AsStated ==
    /\ ~hist.close
    /\ spc \in {"top", "summary", "returned"} =>
          /\ sess.explore_count = hist.attempts
          /\ hist.attempts > 0 => sess.last_explore_time = hist.last_attempt

\* C25: at the end of every cycle profiles_visited is the number of visit
\* phases of the run and the visit timestamp is the time the last of them
\* ended
C25_AsStated ==
    spc \in {"top", "summary", "returned"} =>
        /\ sess.profiles_visited = hist.dequeued
        /\ hist.dequeued > 0 => sess.last_visit_time = hist.visit_end

\* C26: a scrape trigger begins only with the queue below its cap and more
\* than 120 s after the previous trigger began (after the session start for
\* the first); a visit begins only with an unvisited identity in the queue
\* and more than 30 s after the previous visit ended (after the session
\* start for the first); the two timestamps of the run are at every moment
\* the start of the last trigger and the end of the last visit, whatever
\* their outcome, and the session start before
C26_Cooldowns ==
    /\ [](spc # "idle" =>
            /\ sess.last_scraper_time = hist.scrape_begin
            /\ sess.last_visit_time = hist.visit_end)
    /\ [][(spc = "scrape_gate" /\ spc' = "scraping") =>
            /\ Len(sess.scraped_usernames) < cfg.max_scraped_accounts
            /\ now - hist.scrape_begin > min_time_between_scraper
            /\ now - sess.start_time > min_time_between_scraper
            /\ hist'.scrape_begin = now]_vars
    /\ [][(spc = "visit_gate" /\ spc' = "visit_search") =>
            /\ sess.visit_index < Len(sess.scraped_usernames)
            /\ now - hist.visit_end > min_time_between_visits
            /\ now - sess.start_time > min_time_between_visits]_vars
    /\ [][(spc = "visit_back" /\ spc' # "visit_back") => hist'.visit_end = now']_vars

\* a second visit begins, the first having ended after the pipeline and the
\* visit itself took time
C26_Witness ==
    /\ spc = "visit_search"
    /\ hist.dequeued = 2
    /\ sess.scraper_runs = 1
    /\ hist.scrape_begin > sess.start_time + min_time_between_scraper
    /\ hist.visit_end > hist.scrape_begin + Tick
    /\ now - hist.visit_end > min_time_between_visits

\* C27: the usernames of the visit phases of a run, in order, are the first
\* visit_index entries of the queue in queue order, one per visit phase; the
\* index moves by one when a visit begins and at no other step, and the
\* entries of the queue stay in place, whatever the searches did
C27_Fifo ==
    /\ [](/\ Len(hist.visits) = hist.dequeued
          /\ hist.visits = SubSeq(sess.scraped_usernames, 1, sess.visit_index)
          /\ spc \in {"visit_search", "visit_back"} =>
                sess.username = sess.scraped_usernames[sess.visit_index])
    /\ [][spc # "idle" =>
            /\ sess'.visit_index =
                  sess.visit_index
                  + (IF spc = "visit_gate" /\ spc' = "visit_search" THEN 1 ELSE 0)
            /\ SubSeq(sess'.scraped_usernames, 1, Len(sess.scraped_usernames))
                  = sess.scraped_usernames]_vars

\* two identities queued, the visit of the first did not find it, the second
\* visit is under way
C27_Witness ==
    /\ spc = "visit_search"
    /\ hist.visits = <<"u2", "u1">>
    /\ sess.profiles_visited = 0
    /\ sess.username = "u1"

\* C28: the visit queue never holds an identity twice, and no identity is
\* taken for a visit twice in a run
C28_NoDuplicates ==
    /\ \A i, j \in 1..Len(sess.scraped_usernames) :
          sess.scraped_usernames[i] = sess.scraped_usernames[j] => i = j
    /\ \A i, j \in 1..Len(hist.visits) : hist.visits[i] = hist.visits[j] => i = j

\* after two scrape triggers the queue holds "u1" and "u2" and both were
\* visited: of RepeatingResults, the only list that brings "u2" names "u1"
\* twice
C28_Witness ==
    /\ sess.scraper_runs = 2
    /\ hist.enqueued = 2
    /\ hist.visits = <<"u1", "u2">>
    /\ sess.scraped_usernames = <<"u1", "u2">>

\* C29 as stated: what a scrape trigger appends of the usernames the pipeline
\* returns is, leading '@' apart, among the usernames the pipeline scraped
C29_AsStated ==
    io.scraped # {} /\ io.readback # "unread" =>
        \A i \in 1..Len(AppendNew(<<>>, io.readback, MaxCap)) :
            lstrip(AppendNew(<<>>, io.readback, MaxCap)[i]) \in io.scraped

\* C30 as stated: the accounts one call of scrape_hashtags_sync has collected
\* never exceed MAX_ACCOUNTS_PER_SESSION
C30_AsStated == sess.collected <= MAX_ACCOUNTS_PER_SESSION

\* C31: on a site where every examination of a post fails, a post the session
\* navigated to is in visited_posts from that step on and is navigated to
\* once in the session, however often later hashtags and later scrape
\* triggers list it
C31_FailedNeverRetried ==
    /\ [](spc # "idle" =>
            /\ sess.collected = 0
            /\ \A p \in Posts : hist.gotos[p] = (IF p \in sess.visited_posts THEN 1 ELSE 0))
    /\ [][spc = "scraping" =>
            /\ sess.visited_posts \subseteq sess'.visited_posts
            /\ \A p \in Posts :
                  hist'.gotos[p] > hist.gotos[p] =>
                      p \notin sess.visited_posts /\ p \in sess'.visited_posts]_vars

\* the second scrape trigger of a session went through its hashtags, each of
\* which lists every post: all were left out, none was navigated to again
C31_Witness ==
    /\ spc = "scraping"
    /\ sess.scraper_runs = 2
    /\ sess.hashtags_done = MAX_HASHTAGS_PER_SESSION
    /\ sess.collected = 0
    /\ hist.skipped
    /\ \A p \in Posts : hist.gotos[p] = 1

\* C32 as stated: an account recorded with source post_owner in a session of
\* the account "me" is no system name and is not "me"
C32_AsStated ==
    \A i \in 1..Len(io.all_users) :
        /\ io.all_users[i].username \notin SYSTEM_USERNAMES
        /\ io.all_users[i].username # "me"

\* C33 as stated: whatever the Inference Service replied, the analysis of
\* the scraped accounts does not raise
C33_AsStated == io.pc # "raised"

\* C34 as stated: a block of a response whose classification line names none
\* of the three labels, or that has no classification line, gives no parsed
\* result
C34_AsStated ==
    \A b \in 1..Len(responses) :
        \A k \in 1..Len(responses[b].blocks) :
            LET block == responses[b].blocks[k]
            IN (\/ ~block.classified
                \/ block.words \notin {<<"IDEAL", "TARGET">>, <<"POSSIBLE", "TARGET">>,
                                        <<"NON-TARGET">>})
               => parse_single_response(<<block>>) = <<>>

\* C35 as stated: every result a classification call returns has a score in
\* 0..100
C35_AsStated ==
    cpc = "done" => \A k \in 1..Len(final) : final[k].score \in 0..100

\* C37: a batch whose response is a text adds one result per parsed block,
\* the k-th with the verdict of the k-th parsed block and, up to the size of
\* the batch, the identity and source of the k-th user of the batch, beyond
\* it no identity; a returned result has an identity, which is that of an
\* input entry, and the source of the input entry with that identity (the
\* last one when several have it)
C37_Attribution ==
    /\ [][(cpc = "batches" /\ Len(responses') > Len(responses)
                           /\ ~responses'[Len(responses')].raises) =>
            LET batch == Batch(users, batch_start)
                parsed == parse_single_response(responses'[Len(responses')].blocks)
                added == SubSeq(all_results', Len(all_results) + 1, Len(all_results'))
            IN /\ Len(added) = Len(parsed)
               /\ \A k \in 1..Len(parsed) :
                     /\ SameVerdict(added[k], parsed[k])
                     /\ added[k].has_username = (k <= Len(batch))
                     /\ k <= Len(batch) =>
                           /\ added[k].username = lstrip(batch[k].username)
                           /\ added[k].source = batch[k].source]_vars
    /\ [](cpc = "done" =>
            \A k \in 1..Len(final) :
                /\ final[k].has_username
                /\ \E i \in 1..Len(users) :
                      /\ Identity(i) = final[k].username
                      /\ \A j \in 1..Len(users) : Identity(j) = Identity(i) => j <= i
                      /\ final[k].source = users[i].source)

\* classify_accounts on two profiles whose response had three parseable
\* blocks of different verdicts: both identities are returned, each with its
\* own block's label
C37_Witness ==
    /\ cpc = "done"
    /\ call.entry = "classify_accounts"
    /\ Len(users) = 2
    /\ Len(responses[1].blocks) = 3
    /\ Len(parse_single_response(responses[1].blocks)) = 3
    /\ Len(final) = 2
    /\ \E k \in 1..2 :
          /\ final[k].username = Identity(2)
          /\ final[k].classification = ParseClassification(responses[1].blocks[2].words)
          /\ final[k].classification # ParseClassification(responses[1].blocks[1].words)

\* C36: a stop request on a task, and every step of a task's worker (its
\* updates and log appends), leave the flag, status, message, result and logs
\* of every other task as they were; and the flag a task's stop callable
\* reads is set only when a stop was requested on that task
C36_Isolation ==
    /\ [][ \A a \in TaskIds :
              (\/ stop_running_task(a) \/ WorkerStart(a) \/ WorkerGetCookies(a)
               \/ WorkerCall(a) \/ WorkerExcept(a) \/ WorkerSetAttr(a)) =>
                  \A b \in (DOMAIN tasks) \ {a} :
                      /\ b \in DOMAIN tasks' /\ tasks'[b] = tasks[b]
                      /\ b \in DOMAIN stop_flags' /\ stop_flags'[b] = stop_flags[b] ]_vars
    /\ [](\A b \in DOMAIN tasks : is_stopped(b) => stop_seen[b] # NeverStopped)

\* a stop was requested on one task while another was running and had
\* logged; the other, never stopped, went on to its end
C36_Witness ==
    \E a \in DOMAIN tasks, b \in DOMAIN tasks :
        /\ a # b
        /\ is_stopped(a) /\ stop_seen[a] = RUNNING
        /\ ~is_stopped(b) /\ stop_seen[b] = NeverStopped
        /\ tasks[b].logs # <<>>
        /\ wpc[b] = "done"

\* C38: a scrape trigger fires only while the queue, visited entries
\* included, is shorter than max_scraped_accounts; the queue never gets
\* shorter, so once max_scraped_accounts identities were enqueued no scrape
\* trigger fires for the rest of the session
C38_GateCountsAll ==
    /\ [](spc # "idle" => Len(sess.scraped_usernames) = hist.enqueued)
    /\ [][spc # "idle" =>
            /\ sess'.scraper_runs # sess.scraper_runs =>
                  Len(sess.scraped_usernames) < cfg.max_scraped_accounts
            /\ hist.enqueued >= cfg.max_scraped_accounts =>
                  /\ sess'.scraper_runs = sess.scraper_runs
                  /\ hist'.enqueued = hist.enqueued]_vars

\* the queue is full, every entry of it was visited, the scrape cooldown is
\* over and the cycle is past its scrape gate without a second trigger
C38_Witness ==
    /\ spc = "visit_gate"
    /\ hist.enqueued = cfg.max_scraped_accounts
    /\ sess.visit_index = Len(sess.scraped_usernames)
    /\ now - sess.last_scraper_time > min_time_between_scraper
    /\ sess.scraper_runs = 1
    /\ hist.phases = <<"scroll">>

\* C39: a session the supervisor starts begins with zero counters, an empty
\* queue, an empty visited-post set and its three cooldown timestamps at its
\* own start; what it visits is what it enqueued itself, and the posts it
\* leaves out are posts it went to itself
C39_FreshSessions ==
    /\ [][(sup.pc = "call" /\ spc = "idle" /\ spc' = "top") =>
            /\ sess'.scroll_count = 0 /\ sess'.like_count = 0
            /\ sess'.explore_count = 0 /\ sess'.scraper_runs = 0
            /\ sess'.profiles_visited = 0 /\ sess'.visit_index = 0
            /\ sess'.scraped_usernames = <<>> /\ sess'.visited_posts = {}
            /\ sess'.start_time = now
            /\ sess'.last_explore_time = now /\ sess'.last_scraper_time = now
            /\ sess'.last_visit_time = now]_vars
    /\ [](spc \notin {"idle", "raised"} =>
            /\ Len(sess.scraped_usernames) = hist.enqueued
            /\ hist.visits = SubSeq(sess.scraped_usernames, 1, sess.visit_index)
            /\ sess.visited_posts = {p \in Posts : hist.gotos[p] > 0})

\* the first session returned with "u1" queued and not visited and with
\* post "p1" visited; the second went to "p1" again, enqueued nothing and,
\* past its visit cooldown, has visited nobody
C39_Witness ==
    /\ sup.total_stats.sessions = 2
    /\ spc = "top"
    /\ suph.left = <<"u1">>
    /\ "p1" \in suph.posts
    /\ hist.gotos["p1"] = 1
    /\ sess.scraped_usernames = <<>>
    /\ hist.dequeued = 0
    /\ now - sess.last_visit_time > min_time_between_visits

\* C40 as stated: a task whose stop was requested while it was pending, and
\* whose worker met no failing Credential Store or Automation Surface call,
\* was moved to running by its worker and ends completed
C40_AsStated ==
    \A t \in DOMAIN tasks :
        ( /\ stop_seen[t] = PENDING
          /\ t \in DOMAIN wpc /\ wpc[t] = "done"
          /\ wexc[t] \notin {NoCookies, CredentialStoreError, SessionError} ) =>
            tasks[t].status = COMPLETED


====
